---------------------------- MODULE Spec2Model ----------------------------
(***************************************************************************)
(* The upsert-and-link engine of notion-videogames.                        *)
(*                                                                         *)
(* ConnectablePage.retrieve_or_create_from_data (notion.py) is a           *)
(* classmethod wrapped, from the outside in, by functools.lru_cache and    *)
(* tenacity.retry.  Entity types that derive display hints from the data   *)
(* (Game, GameLocalization, Cover, ...) override it with a second          *)
(* lru_cache'd wrapper that calls the base one.  get_notion_properties     *)
(* calls retrieve_or_create_from_data of the referenced records, so one    *)
(* call is a recursion over the record tree; the recursion is modelled     *)
(* with an explicit stack of frames.                                       *)
(***************************************************************************)
EXTENDS Integers, Sequences, FiniteSets, TLC

\* ------------------------------------------------------------------ bounds
\* top-level calls of one run
MaxCalls == 2
\* remote operations that fail sporadically during one run
MaxFaults == 1
\* FaultSpec: records whose remote operations may fail every time, and
\* top-level calls of one run
MaxFaulty == 1
MaxFaultCalls == 1
\* MainSpec: games the catalog returns, and remote operations that fail
MaxGames == 2
MaxMainFaults == 1
\* FieldSpec: units of a text attribute, records of a collection attribute
\* top-level calls each of two concurrent runs makes
MaxRaceCalls == 1
\* top-level calls of get_query_fields
MaxQueryCalls == 2
\* keys of one kind extracted from the source pages
MaxKeys == 51
MaxTextLen == 2002
MaxCollLen == 102

\* ------------------------------------------------------- program constants
MaxAttempts == 10
MAX_RELATION_PAGES == 100
MAX_TEXT_LENGTH == 2000

NoneV == "none"

\* ------------------------------------------------------------ entity types
Classes == {"Game", "GameLocalization", "Cover", "Region",
            "HLTBNotionPage", "SteamSpyNotionPage", "CustomGamePage"}

\* the catalog entity types (subclasses of IGDBNotionPage)
IgdbClasses == {"Game", "GameLocalization", "Cover", "Region"}

\* the composite entity type, resolved through its catalog game's page
IsComposite(cls) == cls = "CustomGamePage"

\* entity types that override retrieve_or_create_from_data with their own
\* lru_cache'd wrapper deriving icon/cover hints from the data
HasOverride(cls) ==
    cls \in {"Game", "GameLocalization", "Cover",
             "HLTBNotionPage", "SteamSpyNotionPage", "CustomGamePage"}

\* the relation table with the commented-out Cover "Game" relation followed
RelationFieldsBackRef(cls) ==
    CASE cls = "Game"             -> <<"cover", "game_localizations">>
      [] cls = "GameLocalization" -> <<"cover", "region">>
      [] cls = "Cover"            -> <<"game">>
      [] cls = "Region"           -> << >>
      [] cls = "CustomGamePage"   -> <<"igdb", "hltb", "steamspy">>
      [] OTHER                    -> << >>

\* relation fields get_notion_properties follows, in dict-literal order
RelationFields(cls) ==
    CASE cls = "Game"             -> <<"cover", "game_localizations">>
      [] cls = "GameLocalization" -> <<"cover", "region">>
      [] cls = "Cover"            -> << >>
      [] cls = "Region"           -> << >>
      [] cls = "CustomGamePage"   -> <<"igdb", "hltb", "steamspy">>
      [] OTHER                    -> << >>

FieldNames == {"cover", "region", "game_localizations", "game",
               "igdb", "hltb", "steamspy"}

\* ------------------------------------------------------------ domain data
NoRefs == [f \in FieldNames |-> << >>]

Rec(cls, hasId, id, url, refs) ==
    [cls |-> cls, hasId |-> hasId, id |-> id, url |-> url, refs |-> refs]

\* The records of one run.  1 is a fetched game and 3 its cover, which
\* refers back to the game (Cover.game) through the stub 5: same natural key
\* as 1, other content.  2 is a localization sharing cover 3.  6 is an unset
\* cover (protobuf default: id 0, empty url).  7 is a malformed record
\* without an id attribute.  8 is a game-length match and 9 an ownership
\* record.  10..17 are the composite records CustomGame(igdb, hltb, steamspy)
\* of games 1 and 5, with and without each statistics match (None is the
\* empty list); a composite has no key attribute of its own, its id here is
\* its game's.
Data ==
    << Rec("Game", TRUE, 1, FALSE, [NoRefs EXCEPT !["cover"] = <<3>>]),
       Rec("GameLocalization", TRUE, 1, FALSE,
           [NoRefs EXCEPT !["cover"] = <<3>>, !["region"] = <<4>>]),
       Rec("Cover", TRUE, 1, TRUE, [NoRefs EXCEPT !["game"] = <<5>>]),
       Rec("Region", TRUE, 1, FALSE, NoRefs),
       Rec("Game", TRUE, 1, FALSE, [NoRefs EXCEPT !["cover"] = <<6>>]),
       Rec("Cover", TRUE, 0, FALSE, NoRefs),
       Rec("Region", FALSE, 0, FALSE, NoRefs),
       Rec("HLTBNotionPage", TRUE, 1, TRUE, NoRefs),
       Rec("SteamSpyNotionPage", TRUE, 1, TRUE, NoRefs),
       Rec("CustomGamePage", TRUE, 1, FALSE, [NoRefs EXCEPT !["igdb"] = <<1>>]),
       Rec("CustomGamePage", TRUE, 1, FALSE,
           [NoRefs EXCEPT !["igdb"] = <<1>>, !["hltb"] = <<8>>]),
       Rec("CustomGamePage", TRUE, 1, FALSE,
           [NoRefs EXCEPT !["igdb"] = <<1>>, !["steamspy"] = <<9>>]),
       Rec("CustomGamePage", TRUE, 1, FALSE,
           [NoRefs EXCEPT !["igdb"] = <<1>>, !["hltb"] = <<8>>, !["steamspy"] = <<9>>]),
       Rec("CustomGamePage", TRUE, 1, FALSE, [NoRefs EXCEPT !["igdb"] = <<5>>]),
       Rec("CustomGamePage", TRUE, 1, FALSE,
           [NoRefs EXCEPT !["igdb"] = <<5>>, !["hltb"] = <<8>>]),
       Rec("CustomGamePage", TRUE, 1, FALSE,
           [NoRefs EXCEPT !["igdb"] = <<5>>, !["steamspy"] = <<9>>]),
       Rec("CustomGamePage", TRUE, 1, FALSE,
           [NoRefs EXCEPT !["igdb"] = <<5>>, !["hltb"] = <<8>>, !["steamspy"] = <<9>>]) >>

DataIds == DOMAIN Data

\* the catalog records
IgdbIds == {d \in DataIds : Data[d].cls \in IgdbClasses}

\* the composite records
CustomIds == {d \in DataIds : IsComposite(Data[d].cls)}

RECURSIVE Flatten(_, _)
Flatten(fields, refs) ==
    IF fields = << >> THEN << >>
    ELSE refs[Head(fields)] \o Flatten(Tail(fields), refs)

\* the records whose retrieve_or_create_from_data get_notion_properties(d)
\* calls, in call order
\* the referenced records with the unset ones (natural key 0) left out
ChildrenSkipUnset(d) ==
    LET c == Flatten(RelationFields(Data[d].cls), Data[d].refs)
    IN SelectSeq(c, LAMBDA x : Data[x].id # 0)

Children(d) == Flatten(RelationFields(Data[d].cls), Data[d].refs)


\* url the overriding wrappers derive the icon from: data.url for a Cover,
\* data.cover.url for a Game or a GameLocalization, data.igdb.cover.url for
\* a composite, the image url of a game-length match, the logo url built
\* from the appid of an ownership record
RECURSIVE DataUrl(_)
DataUrl(d) ==
    IF Data[d].cls \in {"Cover", "HLTBNotionPage", "SteamSpyNotionPage"}
    THEN Data[d].url
    ELSE IF IsComposite(Data[d].cls) THEN DataUrl(Head(Data[d].refs["igdb"]))
    ELSE IF Data[d].refs["cover"] = << >> THEN FALSE
    ELSE Data[Head(Data[d].refs["cover"])].url

\* ---------------------------------------------------------- call arguments
\* Omitted: f(data); any other pair: f(data, icon_url, cover_url).  The two
\* forms are different lru_cache keys even when the values passed are the
\* defaults.
Omitted == <<"omitted", "omitted">>
TopArgs == {Omitted, <<NoneV, NoneV>>, <<"u", NoneV>>, <<"d", NoneV>>}

\* the values the function body sees for icon_url and cover_url
IconOf(args) == IF args = Omitted THEN NoneV ELSE args[1]
CoverOf(args) == IF args = Omitted THEN NoneV ELSE args[2]

\* icon_url.replace("/t_thumb/", "/t_cover_big_2x/")
BigOf(icon) == icon \o "_big"

\* the (icon_url, cover_url) an overriding wrapper passes to the base
Resolve(d, args) ==
    LET icon == IF IconOf(args) = NoneV /\ DataUrl(d) THEN "d" ELSE IconOf(args)
        cover == IF CoverOf(args) = NoneV /\ icon # NoneV THEN BigOf(icon)
                 ELSE CoverOf(args)
    IN CASE Data[d].cls = "HLTBNotionPage" ->
              <<IF IconOf(args) = NoneV THEN "d" ELSE IconOf(args),
                IF CoverOf(args) = NoneV THEN "d" ELSE CoverOf(args)>>
         [] Data[d].cls = "SteamSpyNotionPage" ->
              <<IF IconOf(args) = NoneV THEN "logo" ELSE IconOf(args),
                IF CoverOf(args) = NoneV THEN "hero" ELSE CoverOf(args)>>
         [] OTHER -> <<icon, cover>>

\* a base cache keyed by the record alone
BaseArgsNoHints(d, args) == Omitted

\* a cache key in which an omitted hint and an explicit None are the same
BaseArgsDefaultsFilled(d, args) ==
    IF HasOverride(Data[d].cls) THEN Resolve(d, args) ELSE <<IconOf(args), CoverOf(args)>>

\* arguments of the base call, which are the base cache key's arguments
BaseArgs(d, args) == IF HasOverride(Data[d].cls) THEN Resolve(d, args) ELSE args

\* ------------------------------------------------------------------ errors
Transient == {"HTTPResponseError", "RequestTimeoutError"}
Errors == Transient \cup {"ValueError", "OtherError"}

\* retrying on any exception
RetryIfAny(e) == TRUE

\* tenacity.retry_if_exception_type((HTTPResponseError, RequestTimeoutError))
RetryIf(e) == e \in Transient

\* stopping one attempt early
StopAfterEarly(attempt) == attempt >= MaxAttempts - 1

\* tenacity.stop.stop_after_attempt(10)
StopAfter(attempt) == attempt >= MaxAttempts

\* wait_random_exponential(multiplier=3.75, max=960), in quarters of a
\* time unit
Multiplier == 15
MaxWait == 3840

\* the window of tenacity releases that raise the base to the attempt number
WaitHighFromAttempt(attempt) ==
    LET result == Multiplier * 2^attempt
    IN IF result < MaxWait THEN result ELSE MaxWait

\* wait_exponential.__call__ after the failed attempt: multiplier *
\* exp_base ** (attempt_number - 1), at most max; the sleep is drawn
\* uniformly between 0 and this value
WaitHigh(attempt) ==
    LET result == Multiplier * 2^(attempt - 1)
    IN IF result < MaxWait THEN result ELSE MaxWait

NoBackoff == [pc |-> "none", attempt |-> 0, high |-> 0, sleep |-> 0]

\* ------------------------------------------------------------------- state
VARIABLES
    update,     \* ConnectablePage.update
    pages,      \* the remote store: sequence of page records, index = page id
    cacheSub,   \* lru_cache of the overriding wrappers
    cacheBase,  \* lru_cache of ConnectablePage.retrieve_or_create_from_data
    stack,      \* active base calls, innermost last
    exc,        \* exception in flight, or NoneV
    calls,      \* top-level calls made so far, with their outcome
    lastOp,     \* remote operation issued by the last step
    env,        \* environment of the run: faulty records, number of calls,
                \* records the caller passes at top level
    faultsLeft, \* sporadic failures the environment may still inject
    main,       \* the main program (main.py): position, configuration, databases
    prop,       \* the property value get_notion_properties built last
    other,      \* a second run of the program against the same store, while
                \* it is not the one taking steps
    query,      \* the evaluation of get_query_fields: active calls, the
                \* functools.cache of the method, the tuple returned last
    batch,      \* the catalog requests of main.py: the keys extracted from
                \* the source pages and the requests issued so far
    backoff     \* the tenacity loop around one wrapped call: the attempt
                \* number, the window and the length of the pending sleep

vars == <<update, pages, cacheSub, cacheBase, stack, exc, calls, lastOp, env,
          faultsLeft, main, prop, other, query, batch, backoff>>

NoOp == [op |-> "none", d |-> 0, page |-> 0, effect |-> FALSE]
Op(op, d, page, effect) == [op |-> op, d |-> d, page |-> page, effect |-> effect]

Page(cls, key, src, rels, hints, pre) ==
    [cls |-> cls, key |-> key, src |-> src, rels |-> rels, hints |-> hints,
     pre |-> pre]

\* lru_cache: a set of entries, at most one per key (d, args)
Entry(d, args, h) == [d |-> d, args |-> args, h |-> h]
CacheHas(c, d, args) == \E e \in c : e.d = d /\ e.args = args
CacheGet(c, d, args) == (CHOOSE e \in c : e.d = d /\ e.args = args).h
\* a cache that forgets what it is given
CachePutForgets(c, d, args, h) == c
\* a cache of one entry (maxsize=1)
CachePutEvicts(c, d, args, h) == {Entry(d, args, h)}

CachePut(c, d, args, h) == IF CacheHas(c, d, args) THEN c ELSE c \cup {Entry(d, args, h)}

\* records that may already be in the remote store when the run starts
PreExisting == {<<"Game", 1>>, <<"Cover", 1>>}

RECURSIVE SeqOfSet(_)
SeqOfSet(S) ==
    IF S = {} THEN << >>
    ELSE LET x == CHOOSE y \in S : TRUE IN <<x>> \o SeqOfSet(S \ {x})

InitPages(S) ==
    LET q == SeqOfSet(S)
    IN [i \in 1..Len(q) |->
          Page(q[i][1], q[i][2], 0, << >>, <<NoneV, NoneV>>, TRUE)]

\* ------------------------------------------------------- the main program
\* the six environment values main.py reads
ConfigNames ==
    {"NOTION_TOKEN", "IGDB_CLIENT_ID", "IGDB_CLIENT_SECRET", "SOURCE_DB_ID",
     "MAIN_PAGE_ID", "MAIN_GAMES_DB_NAME"}

\* a value is not in the environment, is the empty string, or is set
ConfigValues == {"unset", "empty", "set"}

\* read with os.environ[...], which raises KeyError for a name not set; the
\* others are read with os.getenv, which yields None
EnvironKeys == {"NOTION_TOKEN", "MAIN_GAMES_DB_NAME"}

\* `not VALUE`: None and the empty string
Falsy(v) == v \in {"unset", "empty"}

\* the configuration checks with the one for SOURCE_DB_ID left out
RequiredValuesNoSource ==
    {"NOTION_TOKEN", "IGDB_CLIENT_ID", "IGDB_CLIENT_SECRET", "MAIN_PAGE_ID"}

\* the values the checks at the start of __main__ test with `not`
RequiredValues ==
    {"NOTION_TOKEN", "IGDB_CLIENT_ID", "IGDB_CLIENT_SECRET", "SOURCE_DB_ID",
     "MAIN_PAGE_ID"}

\* the registry with the composite type registered first
notion_db_types_composite_first ==
    << "CustomGamePage",
       "AgeRatingContentDescription", "AgeRating", "AlternativeName", "Artwork",
       "CompanyLogo", "CompanyWebsite", "Company", "Cover", "PlatformFamily",
       "PlatformLogo", "PlatformVersionCompany", "PlatformVersionReleaseDate",
       "PlatformVersion", "PlatformWebsite", "Platform", "ExternalGame",
       "Franchise", "GameEngineLogo", "GameEngine", "Region", "GameLocalization",
       "GameMode", "GameVideo", "Genre", "InvolvedCompany", "Keyword", "Language",
       "LanguageSupportType", "LanguageSupport", "MultiplayerMode",
       "PlayerPerspective", "ReleaseDateStatus", "ReleaseDate", "Screenshot",
       "Theme", "Website", "Game", "HLTBNotionPage", "SteamSpyNotionPage" >>

\* the registered entity types, in the insertion order of the dict: the
\* order in which the database loop creates and connects them
notion_db_types ==
    << "AgeRatingContentDescription", "AgeRating", "AlternativeName", "Artwork",
       "CompanyLogo", "CompanyWebsite", "Company", "Cover", "PlatformFamily",
       "PlatformLogo", "PlatformVersionCompany", "PlatformVersionReleaseDate",
       "PlatformVersion", "PlatformWebsite", "Platform", "ExternalGame",
       "Franchise", "GameEngineLogo", "GameEngine", "Region", "GameLocalization",
       "GameMode", "GameVideo", "Genre", "InvolvedCompany", "Keyword", "Language",
       "LanguageSupportType", "LanguageSupport", "MultiplayerMode",
       "PlayerPerspective", "ReleaseDateStatus", "ReleaseDate", "Screenshot",
       "Theme", "Website", "Game", "HLTBNotionPage", "SteamSpyNotionPage",
       "CustomGamePage" >>

Registered == {notion_db_types[i] : i \in DOMAIN notion_db_types}

\* the entity types whose database identifier get_notion_schema of cls reads
\* (TYPE._notional__database)
SchemaDeps(cls) ==
    CASE cls = "AgeRating" -> {"AgeRatingContentDescription"}
      [] cls = "Company" -> {"CompanyLogo", "CompanyWebsite"}
      [] cls = "PlatformVersion" ->
           {"PlatformVersionCompany", "PlatformLogo", "PlatformVersionReleaseDate"}
      [] cls = "Platform" ->
           {"PlatformLogo", "PlatformFamily", "PlatformVersion", "PlatformWebsite"}
      [] cls = "GameEngine" -> {"Company", "GameEngineLogo", "Platform"}
      [] cls = "GameLocalization" -> {"Cover", "Region"}
      [] cls = "LanguageSupport" -> {"Language", "LanguageSupportType"}
      [] cls = "ReleaseDate" -> {"Platform", "ReleaseDateStatus"}
      [] cls = "Game" ->
           {"AgeRating", "AlternativeName", "Artwork", "Cover", "ExternalGame",
            "Franchise", "GameEngine", "GameMode", "Genre", "InvolvedCompany",
            "Keyword", "MultiplayerMode", "Platform", "PlayerPerspective",
            "ReleaseDate", "Screenshot", "Theme", "GameVideo", "Website",
            "LanguageSupport", "GameLocalization"}
      [] cls = "CustomGamePage" -> {"Game", "HLTBNotionPage", "SteamSpyNotionPage"}
      [] OTHER -> {}

\* the remote services the program talks to
Services == {"store", "catalog", "statistics"}

\* what the statistics sources answered for the game being processed
NoLookup == [results |-> << >>, steamId |-> FALSE, responseOk |-> FALSE]

\* the main program: position, configuration, titles of the databases in
\* the workspace, progress of the database loop (next index, types
\* connected, schemas created), the fetched games and the loop index, the
\* services contacted, the last statistics answers, the fatal error
MainState(pc, cfg, existing) ==
    [pc |-> pc, cfg |-> cfg, existing |-> existing, idx |-> 1, connected |-> {},
     created |-> {}, games |-> << >>, k |-> 1, remote |-> {}, last |-> NoLookup,
     err |-> NoneV]

\* the classes in use by a caller that has connected every database itself
Connected ==
    [MainState("loop", [n \in ConfigNames |-> "set"], Registered)
       EXCEPT !.connected = Registered, !.idx = Len(notion_db_types) + 1]

\* ------------------------------------------------------- property values
\* s[:n]
Take(s, n) == SubSeq(s, 1, IF Len(s) < n THEN Len(s) ELSE n)

\* rich_text properties: entity type and attribute
TextFields ==
    { <<"Game", "storyline">>, <<"Game", "summary">>, <<"Game", "slug">>,
      <<"Company", "description">>, <<"Company", "slug">>,
      <<"Platform", "summary">>, <<"PlatformVersion", "summary">>,
      <<"Cover", "image_id">>, <<"AgeRating", "synopsis">>,
      <<"HLTBNotionPage", "game_alias">> }

\* the rich_text properties whose attribute is sliced [:MAX_TEXT_LENGTH]
Truncated(cls, field) ==
    <<cls, field>> \in { <<"Game", "storyline">>, <<"Company", "description">>,
                         <<"PlatformVersion", "summary">> }

\* the "content" of the rich_text property built from attribute value s
TextContent(cls, field, s) ==
    IF Truncated(cls, field) THEN Take(s, MAX_TEXT_LENGTH) ELSE s

\* collection-valued relation properties of Game
CollectionFields ==
    { <<"Game", "involved_companies">>, <<"Game", "keywords">>,
      <<"Game", "multiplayer_modes">>, <<"Game", "platforms">>,
      <<"Game", "player_perspectives">>, <<"Game", "release_dates">>,
      <<"Game", "screenshots">>, <<"Game", "game_localizations">> }

\* the relation properties whose collection is sliced [:MAX_RELATION_PAGES]
Capped(cls, field) == <<cls, field>> \in { <<"Game", "keywords">> }

\* the records the list comprehension of a relation property iterates over:
\* each is materialized and contributes one entry
RelationTargets(cls, field, coll) ==
    IF Capped(cls, field) THEN Take(coll, MAX_RELATION_PAGES) ELSE coll

\* a value of n units, each unit identified by its position
Units(n) == [i \in 1..n |-> i]

NoProp == [kind |-> "none", cls |-> "none", field |-> "none", src |-> << >>,
           out |-> << >>]

\* the program right after the databases are connected
\* ------------------------------------------------------ get_query_fields
\* the types that have get_query_fields: the registered subclasses of
\* IGDBNotionPage
QueryTypes == Registered \ {"HLTBNotionPage", "SteamSpyNotionPage", "CustomGamePage"}

\* an expansion table in which a cover leads back to its game
QueryRefsBackRef(cls) ==
    CASE cls = "Game" -> << <<"cover", "Cover">> >>
      [] cls = "Cover" -> << <<"game", "Game">> >>
      [] OTHER -> << >>

\* the generator expressions of a type's get_query_fields, in order: the
\* relation name that prefixes each entry and the type whose
\* get_query_fields supplies the entries (commented-out lines left out);
\* empty for the types that inherit IGDBNotionPage.get_query_fields
QueryRefs(cls) ==
    CASE cls = "AgeRating" ->
         << <<"content_descriptions", "AgeRatingContentDescription">> >>
      [] cls = "Company" ->
         << <<"logo", "CompanyLogo">>, <<"websites", "CompanyWebsite">> >>
      [] cls = "PlatformVersionCompany" ->
         << <<"company", "Company">> >>
      [] cls = "PlatformVersion" ->
         << <<"companies", "PlatformVersionCompany">>,
            <<"main_manufacturer", "PlatformVersionCompany">>,
            <<"platform_logo", "PlatformLogo">>,
            <<"platform_version_release_dates", "PlatformVersionReleaseDate">> >>
      [] cls = "Platform" ->
         << <<"platform_logo", "PlatformLogo">>,
            <<"platform_family", "PlatformFamily">>,
            <<"versions", "PlatformVersion">>,
            <<"websites", "PlatformWebsite">> >>
      [] cls = "ExternalGame" ->
         << <<"platform", "Platform">> >>
      [] cls = "GameEngine" ->
         << <<"companies", "Company">>, <<"logo", "GameEngineLogo">>,
            <<"platforms", "Platform">> >>
      [] cls = "GameLocalization" ->
         << <<"cover", "Cover">>, <<"region", "Region">> >>
      [] cls = "InvolvedCompany" ->
         << <<"company", "Company">> >>
      [] cls = "LanguageSupport" ->
         << <<"language", "Language">>,
            <<"language_support_type", "LanguageSupportType">> >>
      [] cls = "MultiplayerMode" ->
         << <<"platform", "Platform">> >>
      [] cls = "ReleaseDate" ->
         << <<"platform", "Platform">>,
            <<"status", "ReleaseDateStatus">> >>
      [] cls = "Game" ->
         << <<"age_ratings", "AgeRating">>,
            <<"alternative_names", "AlternativeName">>,
            <<"artworks", "Artwork">>, <<"cover", "Cover">>,
            <<"external_games", "ExternalGame">>,
            <<"franchise", "Franchise">>, <<"franchises", "Franchise">>,
            <<"game_engines", "GameEngine">>,
            <<"game_modes", "GameMode">>, <<"genres", "Genre">>,
            <<"involved_companies", "InvolvedCompany">>,
            <<"keywords", "Keyword">>,
            <<"multiplayer_modes", "MultiplayerMode">>,
            <<"platforms", "Platform">>,
            <<"player_perspectives", "PlayerPerspective">>,
            <<"release_dates", "ReleaseDate">>,
            <<"screenshots", "Screenshot">>, <<"themes", "Theme">>,
            <<"videos", "GameVideo">>, <<"websites", "Website">>,
            <<"language_supports", "LanguageSupport">>,
            <<"game_localizations", "GameLocalization">> >>
      [] OTHER -> << >>

\* (f"name.{f}" for f in fields); an entry is the sequence of its dot-
\* separated parts
Prefixed(name, fields) == [i \in DOMAIN fields |-> <<name>> \o fields[i]]

\* functools.cache of get_query_fields after cls returned fields
MemoPut(memo, cls, fields) ==
    [c \in DOMAIN memo \cup {cls} |-> IF c = cls THEN fields ELSE memo[c]]

\* one call of get_query_fields: super().get_query_fields() is ("*",), the
\* arguments of itertools.chain are evaluated from position idx on
QueryFrame(cls) == [cls |-> cls, idx |-> 1, acc |-> << <<"*">> >>]

NoQuery == [stack |-> << >>, memo |-> << >>, out |-> << >>, n |-> 0]

\* ------------------------------------------------- the catalog requests
\* itertools.batched(..., 25)
BatchSize == 25

\* s without its first n elements
Drop(s, n) == SubSeq(s, (IF Len(s) < n THEN Len(s) ELSE n) + 1, Len(s))

\* one request carrying every key
BatchedUncapped(s, n) == <<s>>

\* itertools.batched(s, n): consecutive tuples of n elements of s, the last
\* one shorter when Len(s) is no multiple of n, none for an empty s
RECURSIVE Batched(_, _)
Batched(s, n) ==
    IF s = << >> THEN << >>
    ELSE <<Take(s, n)>> \o Batched(Drop(s, n), n)

\* the key lists the source pages can yield: n different keys, or n
\* different keys and the first of them again (a url listed twice)
KeyLens == {0, 1} \cup ((BatchSize - 1)..MaxKeys)
KeyLists == {Units(n) : n \in KeyLens} \cup {Units(n) \o <<1>> : n \in KeyLens \ {0}}

NoBatch == [pc |-> "none", slugs |-> << >>, appids |-> << >>, sent |-> << >>]

\* a run that has made no call yet: what a process holds right after start
FreshRun ==
    [stack |-> << >>, exc |-> NoneV, calls |-> << >>, cacheSub |-> {},
     cacheBase |-> {}]

InitProgram ==
    /\ cacheSub = {}
    /\ cacheBase = {}
    /\ stack = << >>
    /\ exc = NoneV
    /\ calls = << >>
    /\ lastOp = NoOp
    /\ prop = NoProp
    /\ other = FreshRun
    /\ query = NoQuery
    /\ batch = NoBatch
    /\ backoff = NoBackoff

\* a run in which a bounded number of remote operations fail
Init ==
    /\ InitProgram
    /\ update \in BOOLEAN
    /\ \E S \in SUBSET PreExisting : pages = InitPages(S)
    /\ env = [faulty |-> {}, callLimit |-> MaxCalls, roots |-> IgdbIds]
    /\ faultsLeft = MaxFaults
    /\ main = Connected

\* a run against empty databases in which the remote operations made for
\* some records can fail every time they are issued
FaultInit ==
    /\ InitProgram
    /\ update \in BOOLEAN
    /\ pages = InitPages({})
    /\ \E S \in SUBSET IgdbIds :
         /\ Cardinality(S) <= MaxFaulty
         /\ env = [faulty |-> S, callLimit |-> MaxFaultCalls, roots |-> IgdbIds]
    /\ faultsLeft = 0
    /\ main = Connected

\* ----------------------------------------------------------------- helpers
Top == stack[Len(stack)]
Rest == SubSeq(stack, 1, Len(stack) - 1)

Matches(cls, key) == {i \in DOMAIN pages : pages[i].cls = cls /\ pages[i].key = key}

\* retrieve_from_data that never finds the page
FirstMatchNever(cls, key) == 0

\* query().filter(property="ID", number={"equals": id}).first(): the first
\* page of the type's database whose ID equals the key, 0 (None) without one
FirstMatch(cls, key) ==
    IF Matches(cls, key) = {} THEN 0
    ELSE CHOOSE i \in Matches(cls, key) : \A j \in Matches(cls, key) : i <= j

\* query().filter(property="IGDB", relation={"contains": h}).first(): the
\* first page of the type's database with h among its relation entries
FirstContaining(cls, h) ==
    LET S == {i \in DOMAIN pages :
                pages[i].cls = cls /\ \E k \in DOMAIN pages[i].rels : pages[i].rels[k] = h}
    IN IF S = {} THEN 0 ELSE CHOOSE i \in S : \A j \in S : i <= j

\* the page retrieve_from_data finds for frame f, 0 (None) without one
Found(f) ==
    IF IsComposite(Data[f.d].cls) THEN FirstContaining(Data[f.d].cls, f.igdb)
    ELSE FirstMatch(Data[f.d].cls, Data[f.d].id)

\* a composite resolved without materializing its game first
NeedsIgdbNever(f) == FALSE

\* the composite's retrieve_from_data has still to obtain its game's page
NeedsIgdb(f) == IsComposite(Data[f.d].cls) /\ f.igdb = 0

\* retrieve_from_data without its hasattr guard
HasKeyUnchecked(d) == TRUE

\* hasattr(data, "id"), the guard of retrieve_from_data ("game_id", "appid"
\* for the statistics types; the composite's has no such guard)
HasKey(d) == Data[d].hasId

\* the branch of line 132 with the class flag ignored, either way
FoundActionUpdates(upd) == "update"
FoundActionReturns(upd) == "return"

\* what retrieve_or_create_from_data does with a page retrieve_from_data
\* found: update_from_data when the class flag is set, else return the page
FoundAction(upd) == IF upd THEN "update" ELSE "return"

\* the write issued without waiting for the relation entries
PropertiesDoneEarly(f) == TRUE

\* an update-write whose properties argument is not waited for
PropertiesDoneOnUpdate(f) == f.pc = "update" \/ f.idx > Len(Children(f.d))

\* get_notion_properties(f.d) has evaluated every relation entry, so the
\* properties argument of the write is complete
PropertiesDone(f) == f.idx > Len(Children(f.d))

\* lru_caches that never answer
CachedNever(d, args) == FALSE

\* the base method without its lru_cache
CachedSubOnly(d, args) == HasOverride(Data[d].cls) /\ CacheHas(cacheSub, d, args)

\* the two lru_cache lookups a call f(d, args) goes through
Cached(d, args) ==
    \/ HasOverride(Data[d].cls) /\ CacheHas(cacheSub, d, args)
    \/ CacheHas(cacheBase, d, BaseArgs(d, args))

CachedHandle(d, args) ==
    IF HasOverride(Data[d].cls) /\ CacheHas(cacheSub, d, args)
    THEN CacheGet(cacheSub, d, args)
    ELSE CacheGet(cacheBase, d, BaseArgs(d, args))

\* the overriding wrapper's cache after f(d, args) returned h
SubPut(d, args, h) ==
    IF HasOverride(Data[d].cls) THEN CachePut(cacheSub, d, args, h) ELSE cacheSub

\* one activation of the tenacity-wrapped function.  seen is the number of
\* pages the store held when retrieve_from_data's query was answered with no
\* page.  failed is kept in the outermost activation only: for each record,
\* the remote operations made for it that raised since the top-level
\* caller's call began
NewFrame(d, args) ==
    [d |-> d, args |-> args, bargs |-> BaseArgs(d, args), attempt |-> 1,
     pc |-> "retrieve", idx |-> 1, rels |-> << >>, page |-> 0, igdb |-> 0,
     seen |-> 0, failed |-> [x \in DataIds |-> 0]]

\* the stack after a remote operation made for record d raised
Raised(d) == [stack EXCEPT ![1].failed[d] = @ + 1]

\* the record of one top-level call: its arguments, whether the record's key
\* was in the store when it was made, and how it ended
CallRec(d, args, status, hit, h, err) ==
    [d |-> d, args |-> args, status |-> status, hit |-> hit, h |-> h, err |-> err,
     existed |-> Matches(Data[d].cls, Data[d].id) # {}]

SetLast(q, x) == [q EXCEPT ![Len(q)] = x]

\* hand the value h of a finished call to its caller: the relation list of
\* the parent being serialized, the composite parent's retrieve_from_data,
\* or the top-level caller
Deliver(rest, h) ==
    IF rest = << >>
    THEN /\ stack' = << >>
         /\ calls' = SetLast(calls, [calls[Len(calls)] EXCEPT !.status = "ok", !.h = h])
    ELSE /\ stack' = SetLast(rest,
                         IF rest[Len(rest)].pc = "retrieve"
                         THEN [rest[Len(rest)] EXCEPT !.igdb = h]
                         ELSE [rest[Len(rest)] EXCEPT
                                 !.rels = Append(@, h), !.idx = @ + 1])
         /\ calls' = calls

\* a base method without its lru_cache: only the overriding wrapper stores
ReturnBaseUncached(f, rest, h) ==
    /\ cacheBase' = cacheBase
    /\ cacheSub' = SubPut(f.d, f.args, h)
    /\ Deliver(rest, h)

\* a base call returns h: both lru_caches store it, the caller receives it
Return(f, rest, h) ==
    /\ cacheBase' = CachePut(cacheBase, f.d, f.bargs, h)
    /\ cacheSub' = SubPut(f.d, f.args, h)
    /\ Deliver(rest, h)

\* --------------------------------------------------------------- operations
\* the caller invokes CLS.retrieve_or_create_from_data(data[, icon, cover]):
\* answered by an lru_cache at once, or a new outermost call
Invoke(d, args) ==
    /\ stack = << >>
    /\ exc = NoneV
    /\ Len(calls) < env.callLimit
    /\ d \in env.roots
    /\ lastOp' = NoOp
    /\ IF Cached(d, args)
       THEN /\ calls' = Append(calls, CallRec(d, args, "ok", TRUE, CachedHandle(d, args), NoneV))
            /\ cacheSub' = SubPut(d, args, CachedHandle(d, args))
            /\ UNCHANGED <<stack, cacheBase>>
       ELSE /\ calls' = Append(calls, CallRec(d, args, "run", FALSE, 0, NoneV))
            /\ stack' = <<NewFrame(d, args)>>
            /\ UNCHANGED <<cacheSub, cacheBase>>
    /\ UNCHANGED <<update, pages, exc, env, faultsLeft>>

\* a top-level call made by code that uses the classes directly
Call(d, args) ==
    /\ Invoke(d, args)
    /\ UNCHANGED <<main, prop, other, query, batch, backoff>>

\* what a remote operation made for record d can raise
RemoteErrors(d) ==
    IF d \in env.faulty \/ faultsLeft > 0 THEN Transient \cup {"OtherError"} ELSE {}

\* the environment's failure budget after outcome o of an operation for d
Charge(d, o) ==
    IF o # "ok" /\ d \notin env.faulty THEN faultsLeft - 1 ELSE faultsLeft

\* retrieve_from_data and the branch on its result (notion.py 131-134).
\* The composite's retrieve_from_data first calls
\* Game.retrieve_or_create_from_data(data.igdb), a step of its own, and
\* then queries for the page whose "IGDB" relation contains that page.
Retrieve ==
    /\ stack # << >>
    /\ exc = NoneV
    /\ Top.pc = "retrieve"
    /\ LET f == Top
           g == Head(Data[f.d].refs["igdb"])
       IN IF ~HasKey(f.d)
          THEN /\ exc' = "ValueError"
               /\ lastOp' = NoOp
               /\ UNCHANGED <<stack, calls, cacheSub, cacheBase, faultsLeft>>
          ELSE IF NeedsIgdb(f)
          THEN /\ IF Cached(g, Omitted)
                  THEN /\ stack' = SetLast(stack, [f EXCEPT
                                                    !.igdb = CachedHandle(g, Omitted)])
                       /\ cacheSub' = SubPut(g, Omitted, CachedHandle(g, Omitted))
                  ELSE /\ stack' = Append(stack, NewFrame(g, Omitted))
                       /\ cacheSub' = cacheSub
               /\ lastOp' = NoOp
               /\ UNCHANGED <<exc, calls, cacheBase, faultsLeft>>
          ELSE \E o \in {"ok"} \cup RemoteErrors(f.d) :
                 LET found == Found(f)
                 IN /\ faultsLeft' = Charge(f.d, o)
                    /\ IF o # "ok"
                       THEN /\ exc' = o
                            /\ lastOp' = Op("query", f.d, 0, FALSE)
                            /\ stack' = Raised(f.d)
                            /\ UNCHANGED <<calls, cacheSub, cacheBase>>
                       ELSE /\ exc' = exc
                            /\ lastOp' = Op("query", f.d, found, FALSE)
                            /\ IF found = 0
                               THEN /\ stack' = SetLast(stack, [f EXCEPT !.pc = "create",
                                                                          !.seen = Len(pages)])
                                    /\ UNCHANGED <<calls, cacheSub, cacheBase>>
                               ELSE IF FoundAction(update) = "update"
                               THEN /\ stack' = SetLast(stack, [f EXCEPT !.pc = "update",
                                                                          !.page = found])
                                    /\ UNCHANGED <<calls, cacheSub, cacheBase>>
                               ELSE Return(f, Rest, found)
    /\ UNCHANGED <<update, pages, env, main, prop, other, query, batch, backoff>>

\* relation entries resolved by calls that never consult the lru_caches
SerializeUncached ==
    /\ stack # << >>
    /\ exc = NoneV
    /\ Top.pc \in {"create", "update"}
    /\ ~PropertiesDone(Top)
    /\ stack' = Append(stack, NewFrame(Children(Top.d)[Top.idx], Omitted))
    /\ lastOp' = NoOp
    /\ UNCHANGED <<update, pages, cacheSub, cacheBase, exc, calls, env, faultsLeft,
                   main, prop, other, query, batch, backoff>>

\* get_notion_properties reaching the next relation entry: the nested
\* CHILD.retrieve_or_create_from_data(child) call
Serialize ==
    /\ stack # << >>
    /\ exc = NoneV
    /\ Top.pc \in {"create", "update"}
    /\ ~PropertiesDone(Top)
    /\ LET f == Top
           c == Children(f.d)[f.idx]
       IN IF Cached(c, Omitted)
          THEN /\ stack' = SetLast(stack, [f EXCEPT
                                 !.rels = Append(@, CachedHandle(c, Omitted)),
                                 !.idx = @ + 1])
               /\ cacheSub' = SubPut(c, Omitted, CachedHandle(c, Omitted))
          ELSE /\ stack' = Append(stack, NewFrame(c, Omitted))
               /\ cacheSub' = cacheSub
    /\ lastOp' = NoOp
    /\ UNCHANGED <<update, pages, cacheBase, exc, calls, env, faultsLeft, main, prop, other, query, batch, backoff>>

\* a write that leaves the relation properties out
WrittenNoRelations(f, pre) ==
    Page(Data[f.d].cls, Data[f.d].id, f.d, << >>,
         <<IconOf(f.bargs), CoverOf(f.bargs)>>, pre)

\* the page pages.create / pages.update is asked to write for frame f
Written(f, pre) ==
    Page(Data[f.d].cls, Data[f.d].id, f.d, f.rels,
         <<IconOf(f.bargs), CoverOf(f.bargs)>>, pre)

\* client.pages.create (create_from_data) or client.pages.update
\* (update_from_data), issued once the properties are serialized.  A write
\* that times out may or may not have taken effect in the store; a write
\* the store answers with an error has not.
Write ==
    /\ stack # << >>
    /\ exc = NoneV
    /\ Top.pc \in {"create", "update"}
    /\ PropertiesDone(Top)
    /\ LET f == Top
           target == IF f.pc = "create" THEN Len(pages) + 1 ELSE f.page
           after == IF f.pc = "create"
                    THEN Append(pages, Written(f, FALSE))
                    ELSE [pages EXCEPT ![f.page] = Written(f, pages[f.page].pre)]
       IN \E o \in {"ok"} \cup RemoteErrors(f.d), effect \in BOOLEAN :
            /\ effect = TRUE \/ o = "RequestTimeoutError"
            /\ effect = FALSE \/ o \in {"ok", "RequestTimeoutError"}
            /\ pages' = IF effect THEN after ELSE pages
            /\ lastOp' = Op(f.pc, f.d, target, effect)
            /\ faultsLeft' = Charge(f.d, o)
            /\ IF o = "ok"
               THEN /\ exc' = exc
                    /\ Return(f, Rest, target)
               ELSE /\ exc' = o
                    /\ stack' = Raised(f.d)
                    /\ UNCHANGED <<calls, cacheSub, cacheBase>>
    /\ UNCHANGED <<update, env, main, prop, other, query, batch, backoff>>

\* a retry that repeats the failed statement only
RetryResumes ==
    /\ stack # << >>
    /\ exc # NoneV
    /\ RetryIf(exc)
    /\ ~StopAfter(Top.attempt)
    /\ stack' = SetLast(stack, [Top EXCEPT !.attempt = @ + 1])
    /\ exc' = NoneV
    /\ lastOp' = NoOp
    /\ UNCHANGED <<update, pages, cacheSub, cacheBase, calls, env, faultsLeft, main,
                   prop, other, query, batch, backoff>>

\* tenacity: the attempt raised an exception of a retried class and the
\* stop condition does not hold, so the whole function body runs again
Retry ==
    /\ stack # << >>
    /\ exc # NoneV
    /\ RetryIf(exc)
    /\ ~StopAfter(Top.attempt)
    /\ stack' = SetLast(stack, [Top EXCEPT !.attempt = @ + 1, !.pc = "retrieve",
                                           !.idx = 1, !.rels = << >>, !.page = 0,
                                           !.igdb = 0, !.seen = 0])
    /\ exc' = NoneV
    /\ lastOp' = NoOp
    /\ UNCHANGED <<update, pages, cacheSub, cacheBase, calls, env, faultsLeft, main,
                   prop, other, query, batch, backoff>>

\* a wrapper that stores the page a failed call had reached
PropagateCaches ==
    /\ stack # << >>
    /\ exc # NoneV
    /\ ~(RetryIf(exc) /\ ~StopAfter(Top.attempt))
    /\ stack' = Rest
    /\ cacheBase' = CachePut(cacheBase, Top.d, Top.bargs, Top.page)
    /\ IF Rest = << >>
       THEN /\ calls' = SetLast(calls, [calls[Len(calls)] EXCEPT
                                          !.status = "err", !.err = exc])
            /\ exc' = NoneV
       ELSE UNCHANGED <<calls, exc>>
    /\ lastOp' = NoOp
    /\ UNCHANGED <<update, pages, cacheSub, env, faultsLeft, main, prop, other, query, batch, backoff>>

\* the exception leaves the innermost call (reraise=True): it reaches the
\* parent's get_notion_properties, or the top-level caller
Propagate ==
    /\ stack # << >>
    /\ exc # NoneV
    /\ ~(RetryIf(exc) /\ ~StopAfter(Top.attempt))
    /\ stack' = Rest
    /\ IF Rest = << >>
       THEN /\ calls' = SetLast(calls, [calls[Len(calls)] EXCEPT
                                          !.status = "err", !.err = exc])
            /\ exc' = NoneV
       ELSE UNCHANGED <<calls, exc>>
    /\ lastOp' = NoOp
    /\ UNCHANGED <<update, pages, cacheSub, cacheBase, env, faultsLeft, main, prop, other, query, batch, backoff>>

\* ---------------------------------------------- operations of main.py
Engine == <<update, pages, cacheSub, cacheBase, stack, exc, calls, lastOp, env>>

Fail(e) == [main EXCEPT !.pc = "failed", !.err = e]

\* module level: load_dotenv and the reads of the environment
LoadEnv ==
    /\ main.pc = "import"
    /\ main' = IF \E n \in EnvironKeys : main.cfg[n] = "unset"
               THEN Fail("KeyError")
               ELSE [main EXCEPT !.pc = "checks"]
    /\ UNCHANGED <<Engine, faultsLeft, prop, other, query, batch, backoff>>

\* the configuration checks at the start of __main__
CheckConfig ==
    /\ main.pc = "checks"
    /\ main' = IF \E n \in RequiredValues : Falsy(main.cfg[n])
               THEN Fail("ValueError")
               ELSE [main EXCEPT !.pc = "source"]
    /\ UNCHANGED <<Engine, faultsLeft, prop, other, query, batch, backoff>>

\* a remote operation of the main program on service svc: it succeeds and
\* the program goes on as m, or it raises and the program ends
MainRemote(svc, m) ==
    \E o \in {"ok"} \cup (IF faultsLeft > 0 THEN {"OtherError"} ELSE {}) :
      /\ faultsLeft' = IF o = "ok" THEN faultsLeft ELSE faultsLeft - 1
      /\ main' = IF o = "ok" THEN [m EXCEPT !.remote = @ \cup {svc}]
                 ELSE [Fail(o) EXCEPT !.remote = @ \cup {svc}]

\* notional.connect and the query of the source database
ReadSource ==
    /\ main.pc = "source"
    /\ MainRemote("store", [main EXCEPT !.pc = "catalog"])
    /\ UNCHANGED <<Engine, prop, other, query, batch, backoff>>

\* the games the catalog can return for the keys of the source pages
GameLists ==
    UNION {[1..n -> {d \in IgdbIds : Data[d].cls = "Game"}] : n \in 0..MaxGames}

\* the catalog token and the batched catalog queries
FetchCatalog ==
    /\ main.pc = "catalog"
    /\ \E gs \in GameLists :
         MainRemote("catalog", [main EXCEPT !.pc = "list", !.games = gs])
    /\ UNCHANGED <<Engine, prop, other, query, batch, backoff>>

\* existing_dbs: the child databases of the main page with a registered title
ListDatabases ==
    /\ main.pc = "list"
    /\ MainRemote("store", [main EXCEPT !.pc = "databases"])
    /\ UNCHANGED <<Engine, prop, other, query, batch, backoff>>

\* a loop that creates every database anew
ExistingDbNever(cls) == FALSE

\* existing_dbs.get(title): the workspace has a database with the type's title
ExistingDb(cls) == cls \in main.existing

\* one iteration of the database loop: the database of the next registered
\* type is the existing one with its title or is created from the type's
\* schema, which reads the identifiers of the types it depends on; then the
\* type is connected.  After the last one the per-game loop begins.
ConnectNext ==
    /\ main.pc = "databases"
    /\ LET cls == notion_db_types[main.idx]
           last == main.idx = Len(notion_db_types)
           m == [main EXCEPT !.idx = @ + 1,
                             !.connected = @ \cup {cls},
                             !.pc = IF last THEN "loop" ELSE @]
       IN IF ExistingDb(cls)
          THEN /\ main' = m
               /\ faultsLeft' = faultsLeft
          ELSE MainRemote("store",
                 [m EXCEPT !.created = @ \cup
                    {[cls |-> cls, idx |-> main.idx,
                      unset |-> SchemaDeps(cls) \ main.connected]}])
    /\ UNCHANGED <<Engine, prop, other, query, batch, backoff>>

\* a loop that goes on after a failed record
RunFailedIgnored == FALSE

\* the exception of a top-level call left the loop
RunFailed == calls # << >> /\ calls[Len(calls)].status = "err"

\* what the statistics sources can answer: the candidates of a game-length
\* search, and whether the ownership request was answered with success
SearchResults == {<< >>, <<[d |-> 8, similarity |-> 1]>>}

\* get_best_match that takes any candidate list for a match
GetBestMatchAlways(results) == <<8>>

\* HLTBNotionPage.get_best_match: None (the empty list here) without
\* candidates, else the candidate of highest similarity
GetBestMatch(results) ==
    IF results = << >> THEN << >>
    ELSE LET b == CHOOSE i \in DOMAIN results :
                    \A j \in DOMAIN results :
                       results[j].similarity <= results[i].similarity
         IN <<results[b].d>>

\* SteamSpySession.get_steam_spy_data: the record when response.ok, else None
GetSteamSpyData(responseOk) == IF responseOk THEN <<9>> ELSE << >>

\* CustomGame(game, hltb, steamspy)
CustomGame(g, hl, sl) ==
    CHOOSE d \in CustomIds :
       /\ Data[d].refs["igdb"] = <<g>>
       /\ Data[d].refs["hltb"] = hl
       /\ Data[d].refs["steamspy"] = sl

\* one iteration of the per-game loop up to the call of
\* CustomGamePage.retrieve_or_create_from_data: the ownership lookup when
\* the game has a store id, the game-length lookup, the composite record
ProcessGame ==
    /\ main.pc = "loop"
    /\ main.k <= Len(main.games)
    /\ ~RunFailed
    /\ \E steamId \in BOOLEAN, responseOk \in BOOLEAN, results \in SearchResults :
         /\ steamId \/ ~responseOk
         /\ Invoke(CustomGame(main.games[main.k],
                              GetBestMatch(results),
                              IF steamId THEN GetSteamSpyData(responseOk) ELSE << >>),
                   Omitted)
         /\ main' = [main EXCEPT !.k = @ + 1, !.remote = @ \cup {"statistics"},
                                  !.last = [results |-> results, steamId |-> steamId,
                                            responseOk |-> responseOk]]
    /\ UNCHANGED <<prop, other, query, batch, backoff>>

\* the loop is over: every game was processed, or an exception ended the run
Finish ==
    /\ main.pc = "loop"
    /\ stack = << >>
    /\ RunFailed \/ main.k > Len(main.games)
    /\ main' = IF RunFailed THEN Fail(calls[Len(calls)].err)
               ELSE [main EXCEPT !.pc = "done"]
    /\ UNCHANGED <<Engine, faultsLeft, prop, other, query, batch, backoff>>

\* ------------------------------------------ get_notion_properties values
TextLens == {0, 1} \cup ((MAX_TEXT_LENGTH - 1)..MaxTextLen)
CollLens == {0, 1} \cup ((MAX_RELATION_PAGES - 1)..MaxCollLen)

\* a rich_text property is built from an attribute of n units
SerializeText ==
    /\ \E tf \in TextFields, n \in TextLens :
         prop' = [kind |-> "text", cls |-> tf[1], field |-> tf[2],
                  src |-> Units(n), out |-> TextContent(tf[1], tf[2], Units(n))]
    /\ UNCHANGED <<Engine, faultsLeft, main, other, query, batch, backoff>>

\* a relation property is built from a collection attribute of n records
SerializeRelation ==
    /\ \E cf \in CollectionFields, n \in CollLens :
         prop' = [kind |-> "relation", cls |-> cf[1], field |-> cf[2],
                  src |-> Units(n), out |-> RelationTargets(cf[1], cf[2], Units(n))]
    /\ UNCHANGED <<Engine, faultsLeft, main, other, query, batch, backoff>>

\* ---------------------------------------------------- timestamp decoding
\* A count of seconds or milliseconds is held as two base-1000000 digits,
\* hi * 1000000 + lo, since the values around 10^12 are beyond the
\* model checker's integers
Big(hi, lo) == [hi |-> hi, lo |-> lo]
BigLess(a, b) == a.hi < b.hi \/ (a.hi = b.hi /\ a.lo < b.lo)

\* a // 1000
FloorDiv1000(a) == Big(a.hi \div 1000, (a.hi % 1000) * 1000 + a.lo \div 1000)

\* a * 1000, for a below 10^12
Times1000(a) == Big(a.hi * 1000 + a.lo \div 1000, (a.lo % 1000) * 1000)

\* 1e12
MillisFrom == Big(1000000, 0)

\* datetime.max - DATETIME_ZERO, whole seconds: 9999-12-31T23:59:59
LastSecond == Big(253402, 300799)

\* DATETIME_ZERO + timedelta(seconds, microseconds): the instant, as the
\* offset from 1970-01-01T00:00:00Z, or OverflowError past year 9999
Instant(seconds, microseconds) ==
    IF BigLess(LastSecond, seconds)
    THEN [error |-> "OverflowError", seconds |-> Big(0, 0), microseconds |-> 0]
    ELSE [error |-> "none", seconds |-> seconds, microseconds |-> microseconds]

\* betterproto's own to_datetime, which takes every value as seconds
ToDatetimeSeconds(seconds, nanos) == Instant(seconds, nanos \div 1000)

\* _to_datetime, the replacement of betterproto._Timestamp.to_datetime
ToDatetime(seconds, nanos) ==
    IF BigLess(seconds, MillisFrom)
    THEN Instant(seconds, nanos \div 1000)
    ELSE Instant(FloorDiv1000(seconds), nanos \div 1000000)

\* the timestamps a catalog record can carry: counts of seconds around
\* 0, 10^9, the present, the last representable second and 10^12, the same
\* instants counted in milliseconds, and those with 999 ms more
SecondCounts ==
    {Big(0, 0), Big(0, 1), Big(999, 999999), Big(1000, 0), Big(1000, 1),
     Big(1700, 0), Big(2000, 0), LastSecond, Big(253402, 300800), Big(999999, 999999)}
TimestampSeconds ==
    SecondCounts \cup {Times1000(t) : t \in SecondCounts}
                 \cup {Big(Times1000(t).hi, Times1000(t).lo + 999) : t \in SecondCounts}
TimestampNanos == {0, 999, 1000, 999999, 1000000, 999999999}

\* betterproto decodes a Timestamp field of a fetched record
DecodeTimestamp ==
    /\ \E s \in TimestampSeconds, n \in TimestampNanos :
         prop' = [kind |-> "date", cls |-> "Game", field |-> "created_at",
                  src |-> [seconds |-> s, nanos |-> n], out |-> ToDatetime(s, n)]
    /\ UNCHANGED <<Engine, faultsLeft, main, other, query, batch, backoff>>

\* two runs of the program work on the same databases, each a process with
\* its own call stack and its own lru_caches.  The scheduler suspends the
\* one that is taking steps and resumes the other; every remote operation
\* is one step, so a run can be suspended between its query and its write.
Switch ==
    /\ other' = [stack |-> stack, exc |-> exc, calls |-> calls,
                 cacheSub |-> cacheSub, cacheBase |-> cacheBase]
    /\ stack' = other.stack
    /\ exc' = other.exc
    /\ calls' = other.calls
    /\ cacheSub' = other.cacheSub
    /\ cacheBase' = other.cacheBase
    /\ lastOp' = NoOp
    /\ UNCHANGED <<update, pages, env, faultsLeft, main, prop, query, batch, backoff>>

Next ==
    \/ \E d \in DataIds, args \in TopArgs : Call(d, args)
    \/ Retrieve
    \/ Serialize
    \/ Write
    \/ Retry
    \/ Propagate

Spec == Init /\ [][Next]_vars

FaultSpec == FaultInit /\ [][Next]_vars

\* the workspaces a run can start against: no database exists yet, or every
\* registered one does and some hold pages
\* CLS.get_query_fields() called from outside: answered by functools.cache,
\* or a new call
QueryFieldsCall(cls) ==
    /\ query.stack = << >>
    /\ query.n < MaxQueryCalls
    /\ query' = IF cls \in DOMAIN query.memo
                THEN [query EXCEPT !.out = query.memo[cls], !.n = @ + 1]
                ELSE [query EXCEPT !.stack = <<QueryFrame(cls)>>, !.out = << >>,
                                   !.n = @ + 1]
    /\ UNCHANGED <<update, pages, cacheSub, cacheBase, stack, exc, calls, lastOp,
                   env, faultsLeft, main, prop, other, batch, backoff>>

\* the next argument of itertools.chain: TARGET.get_query_fields() is
\* answered by functools.cache, or called
QueryFieldsExpand ==
    /\ query.stack # << >>
    /\ LET f == query.stack[Len(query.stack)]
           refs == QueryRefs(f.cls)
       IN /\ f.idx <= Len(refs)
          /\ IF refs[f.idx][2] \in DOMAIN query.memo
             THEN query' = [query EXCEPT !.stack[Len(query.stack)] =
                              [f EXCEPT !.idx = @ + 1,
                                        !.acc = @ \o Prefixed(refs[f.idx][1],
                                                              query.memo[refs[f.idx][2]])]]
             ELSE query' = [query EXCEPT !.stack = Append(@, QueryFrame(refs[f.idx][2]))]
    /\ UNCHANGED <<update, pages, cacheSub, cacheBase, stack, exc, calls, lastOp,
                   env, faultsLeft, main, prop, other, batch, backoff>>

\* tuple(itertools.chain(...)) is returned: functools.cache stores it and
\* the caller's generator expression prefixes its entries
QueryFieldsReturn ==
    /\ query.stack # << >>
    /\ LET f == query.stack[Len(query.stack)]
           rest == SubSeq(query.stack, 1, Len(query.stack) - 1)
       IN /\ f.idx > Len(QueryRefs(f.cls))
          /\ IF rest = << >>
             THEN query' = [query EXCEPT !.stack = << >>, !.out = f.acc,
                                         !.memo = MemoPut(@, f.cls, f.acc)]
             ELSE LET g == rest[Len(rest)]
                      name == QueryRefs(g.cls)[g.idx][1]
                  IN query' = [query EXCEPT
                                 !.stack = SetLast(rest,
                                     [g EXCEPT !.idx = @ + 1,
                                               !.acc = @ \o Prefixed(name, f.acc)]),
                                 !.memo = MemoPut(@, f.cls, f.acc)]
    /\ UNCHANGED <<update, pages, cacheSub, cacheBase, stack, exc, calls, lastOp,
                   env, faultsLeft, main, prop, other, batch, backoff>>

\* the program as far as get_query_fields is concerned
QueryInit ==
    /\ InitProgram
    /\ update = FALSE
    /\ pages = InitPages({})
    /\ env = [faulty |-> {}, callLimit |-> 0, roots |-> {}]
    /\ faultsLeft = 0
    /\ main = Connected

QueryNext ==
    \/ \E cls \in QueryTypes : QueryFieldsCall(cls)
    \/ QueryFieldsExpand
    \/ QueryFieldsReturn

\* a call that has begun runs on: the interpreter evaluates the body of a
\* function it has entered until it returns
QuerySpec ==
    QueryInit /\ [][QueryNext]_vars /\ WF_vars(QueryFieldsExpand \/ QueryFieldsReturn)

\* the requests issued so far to an endpoint
SentTo(endpoint) ==
    LET S == {i \in DOMAIN batch.sent : batch.sent[i].endpoint = endpoint}
    IN [k \in 1..Cardinality(S) |->
          batch.sent[CHOOSE i \in S : Cardinality({j \in S : j <= i}) = k].keys]

\* the next query_igdb_games request: games.pb, where slug=(batch)
QueryGames ==
    /\ batch.pc = "games"
    /\ LET bs == Batched(batch.slugs, BatchSize)
           k == Len(SentTo("games")) + 1
       IN batch' = IF k <= Len(bs)
                   THEN [batch EXCEPT !.sent = Append(@, [endpoint |-> "games",
                                                          keys |-> bs[k]])]
                   ELSE [batch EXCEPT !.pc = "external_games"]
    /\ UNCHANGED <<Engine, faultsLeft, main, prop, other, query, backoff>>

\* the next query_igdb_external_games request: external_games.pb, where
\* uid=(batch) & category=1
QueryExternalGames ==
    /\ batch.pc = "external_games"
    /\ LET bs == Batched(batch.appids, BatchSize)
           k == Len(SentTo("external_games")) + 1
       IN batch' = IF k <= Len(bs)
                   THEN [batch EXCEPT !.sent = Append(@, [endpoint |-> "external_games",
                                                          keys |-> bs[k]])]
                   ELSE [batch EXCEPT !.pc = "done"]
    /\ UNCHANGED <<Engine, faultsLeft, main, prop, other, query, backoff>>

\* one attempt of the wrapped function ends: it returns, it raises an error
\* that is not retried or the stop condition holds (the error leaves,
\* reraise=True), or the wait is computed and the sleep is pending
Attempt ==
    /\ backoff.pc = "attempt"
    /\ \E o \in {"ok"} \cup Transient \cup {"OtherError"} :
         IF o = "ok"
         THEN backoff' = [backoff EXCEPT !.pc = "returned"]
         ELSE IF ~RetryIf(o) \/ StopAfter(backoff.attempt)
         THEN backoff' = [backoff EXCEPT !.pc = "raised"]
         ELSE \E s \in 0..WaitHigh(backoff.attempt) :
                backoff' = [backoff EXCEPT !.pc = "sleep",
                                           !.high = WaitHigh(backoff.attempt),
                                           !.sleep = s]
    /\ UNCHANGED <<Engine, faultsLeft, main, prop, other, query, batch>>

\* the sleep is over: the next attempt begins
Sleep ==
    /\ backoff.pc = "sleep"
    /\ backoff' = [backoff EXCEPT !.pc = "attempt", !.attempt = @ + 1, !.sleep = 0]
    /\ UNCHANGED <<Engine, faultsLeft, main, prop, other, query, batch>>

\* one call of the wrapped function, from its first attempt
BackoffInit ==
    /\ cacheSub = {}
    /\ cacheBase = {}
    /\ stack = << >>
    /\ exc = NoneV
    /\ calls = << >>
    /\ lastOp = NoOp
    /\ prop = NoProp
    /\ other = FreshRun
    /\ query = NoQuery
    /\ batch = NoBatch
    /\ update = FALSE
    /\ pages = InitPages({})
    /\ env = [faulty |-> {}, callLimit |-> 0, roots |-> {}]
    /\ faultsLeft = 0
    /\ main = Connected
    /\ backoff = [pc |-> "attempt", attempt |-> 1, high |-> 0, sleep |-> 0]

BackoffNext == Attempt \/ Sleep

BackoffSpec == BackoffInit /\ [][BackoffNext]_vars

\* the program from the key lists to the last catalog request
BatchInit ==
    /\ cacheSub = {}
    /\ cacheBase = {}
    /\ stack = << >>
    /\ exc = NoneV
    /\ calls = << >>
    /\ lastOp = NoOp
    /\ prop = NoProp
    /\ other = FreshRun
    /\ query = NoQuery
    /\ update = FALSE
    /\ pages = InitPages({})
    /\ env = [faulty |-> {}, callLimit |-> 0, roots |-> {}]
    /\ faultsLeft = 0
    /\ main = Connected
    /\ backoff = NoBackoff
    /\ \E s \in KeyLists, a \in KeyLists :
         batch = [pc |-> "games", slugs |-> s, appids |-> a, sent |-> << >>]

BatchNext == QueryGames \/ QueryExternalGames

BatchSpec == BatchInit /\ [][BatchNext]_vars

\* two concurrent runs against the same store, no remote failures; both
\* call with the record alone, as main.py and get_notion_properties do
RaceInit ==
    /\ InitProgram
    /\ update \in BOOLEAN
    /\ \E S \in SUBSET PreExisting : pages = InitPages(S)
    /\ env = [faulty |-> {}, callLimit |-> MaxRaceCalls, roots |-> IgdbIds]
    /\ faultsLeft = 0
    /\ main = Connected

RaceNext ==
    \/ \E d \in DataIds : Call(d, Omitted)
    \/ Retrieve
    \/ Serialize
    \/ Write
    \/ Propagate
    \/ Switch

RaceSpec == RaceInit /\ [][RaceNext]_vars

MainInit ==
    /\ InitProgram
    /\ update = FALSE
    /\ \E cfg \in [ConfigNames -> ConfigValues], ex \in {{}, Registered} :
         /\ main = MainState("import", cfg, ex)
         /\ \E S \in SUBSET {p \in PreExisting : p[1] \in ex} : pages = InitPages(S)
    /\ env = [faulty |-> {}, callLimit |-> MaxGames, roots |-> CustomIds]
    /\ faultsLeft = MaxMainFaults

MainNext ==
    \/ LoadEnv
    \/ CheckConfig
    \/ ReadSource
    \/ FetchCatalog
    \/ ListDatabases
    \/ ConnectNext
    \/ ProcessGame
    \/ Retrieve
    \/ Serialize
    \/ Write
    \/ Retry
    \/ Propagate
    \/ Finish

\* one run of main.py
MainSpec == MainInit /\ [][MainNext]_vars

FieldInit ==
    /\ InitProgram
    /\ update = FALSE
    /\ pages = InitPages({})
    /\ env = [faulty |-> {}, callLimit |-> 0, roots |-> {}]
    /\ faultsLeft = 0
    /\ main = Connected

FieldNext == SerializeText \/ SerializeRelation

\* the property values get_notion_properties builds from attribute values
FieldSpec == FieldInit /\ [][FieldNext]_vars

DateNext == DecodeTimestamp

\* the datetimes decoded from the Timestamp fields of fetched records
DateSpec == FieldInit /\ [][DateNext]_vars

\* ------------------------------------------------------------- properties
Keys == {Data[d].id : d \in DataIds}

\* pages of (cls, key) created during the run
Created(cls, key) == {i \in Matches(cls, key) : ~pages[i].pre}

SameKey(d, e) == Data[d].cls = Data[e].cls /\ Data[d].id = Data[e].id

Finished(i) == i \in DOMAIN calls /\ calls[i].status = "ok"

C2_CacheHitState ==
    /\ \A i, j \in DOMAIN calls :
         (i < j /\ calls[i].d = calls[j].d /\ calls[i].args = calls[j].args
            /\ calls[i].status = "ok")
         => (calls[j].status = "ok" /\ calls[j].hit /\ calls[j].h = calls[i].h)
    /\ \A i \in DOMAIN calls :
         (calls[i].status = "ok" /\ ~calls[i].existed /\ ~calls[i].hit)
         => Created(Data[calls[i].d].cls, Data[calls[i].d].id) = {calls[i].h}

C2_CacheHitStep ==
    (Len(calls') > Len(calls) /\ calls'[Len(calls')].hit)
    => (lastOp'.op = "none" /\ pages' = pages /\ stack' = << >>)

C2_OneCreateThenHits == []C2_CacheHitState /\ [][C2_CacheHitStep]_vars

\* the same call made twice against a store without the key: one page
\* created, the second call a hit with the same handle
C2_Witness ==
    /\ Len(calls) = 2
    /\ calls[1].d = 1 /\ calls[2].d = 1 /\ calls[1].args = calls[2].args
    /\ calls[1].status = "ok" /\ ~calls[1].existed /\ ~calls[1].hit
    /\ calls[2].hit /\ calls[2].h = calls[1].h
    /\ Cardinality(Created("Game", 1)) = 1

\* C3: with the update flag false, a page that was in the store before the
\* run is never written (no create and no update is issued for its key, and
\* its content stays what it was), it stays the only page of its key, and
\* every call and every cache entry for a record of that key yields it.
C3_ExistingUntouched ==
    ~update =>
      \A i \in DOMAIN pages : pages[i].pre =>
         /\ pages[i].src = 0
         /\ Matches(pages[i].cls, pages[i].key) = {i}
         /\ lastOp.op \in {"create", "update"} =>
              ~(Data[lastOp.d].cls = pages[i].cls /\ Data[lastOp.d].id = pages[i].key)
         /\ \A k \in DOMAIN calls :
              (calls[k].status = "ok" /\ Data[calls[k].d].cls = pages[i].cls
                 /\ Data[calls[k].d].id = pages[i].key) => calls[k].h = i
         /\ \A e \in cacheSub \cup cacheBase :
              (Data[e.d].cls = pages[i].cls /\ Data[e.d].id = pages[i].key) => e.h = i

\* flag false, the game's page pre-existing, two calls with different data
\* objects of the game's key both resolved to it
C3_Witness ==
    /\ ~update
    /\ \E i \in DOMAIN pages : pages[i].pre /\ pages[i].cls = "Game"
    /\ Finished(1) /\ Finished(2)
    /\ calls[1].d = 1 /\ calls[2].d = 5 /\ ~calls[2].hit
    /\ calls[1].h = calls[2].h

\* C4: one flag for all entity types.  While it is false no page already in
\* the store is changed by any step; while it is true, a top-level call that
\* returns without a cache hit leaves the returned page holding the
\* properties serialized from the call's record.
C4_UpdateToggleStep ==
    /\ ~update => \A i \in DOMAIN pages : pages'[i] = pages[i]
    /\ (update /\ Len(calls') = Len(calls) /\ calls # << >>
          /\ calls[Len(calls)].status = "run" /\ calls'[Len(calls)].status = "ok")
       => LET c == calls'[Len(calls)]
          IN /\ pages'[c.h].src = c.d
             /\ pages'[c.h].cls = Data[c.d].cls
             /\ pages'[c.h].key = Data[c.d].id

C4_UpdateToggle == [][C4_UpdateToggleStep]_vars

\* flag true: the pre-existing page of the game now holds the properties of
\* record 1, relation to the cover included
C4_Witness ==
    /\ update
    /\ \E i \in DOMAIN pages :
         /\ pages[i].pre /\ pages[i].cls = "Game"
         /\ pages[i].src = 1 /\ Len(pages[i].rels) = 1
    /\ Finished(1)

\* every reference a record holds, followed by get_notion_properties or not
RefsOf(d) ==
    UNION {{Data[d].refs[f][k] : k \in DOMAIN Data[d].refs[f]} : f \in FieldNames}

RECURSIVE ReachFrom(_, _)
ReachFrom(S, n) ==
    IF n = 0 THEN S ELSE ReachFrom(S \cup UNION {RefsOf(e) : e \in S}, n - 1)

\* records reachable from d through references
Reach(d) == ReachFrom(RefsOf(d), Len(Data))

\* d lies on a reference cycle of natural keys: it reaches a record of its
\* own entity type and key
InCycle(d) == \E e \in Reach(d) : SameKey(d, e)

\* the records between d and a record of d's own type and key
CycleOf(d) == {e \in Reach(d) : \E a \in Reach(e) : SameKey(d, a)}

RECURSIVE Followed(_)
\* records materialized while d is serialized
Followed(d) ==
    LET cs == {Children(d)[k] : k \in DOMAIN Children(d)}
    IN cs \cup UNION {Followed(c) : c \in cs}

RECURSIVE Height(_)
Height(d) ==
    LET hs == {Height(Children(d)[k]) : k \in DOMAIN Children(d)}
    IN IF hs = {} THEN 1 ELSE 1 + CHOOSE h \in hs : \A g \in hs : g <= h

\* C5: a record graph with a cycle of natural keys (game 1 -> cover 1 -> game
\* 1) is resolved with bounded recursion: the stack is never deeper than the
\* tree of followed relations of the outermost record, no entity type and key
\* is on the stack twice, and once a call that serialized a record on a
\* cycle has returned, the record and each materialized record on the cycle
\* have exactly one page.
C5_CycleTerminates ==
    /\ stack # << >> => Len(stack) <= Height(stack[1].d)
    /\ \A i, j \in DOMAIN stack : i < j => ~SameKey(stack[i].d, stack[j].d)
    /\ \A k \in DOMAIN calls :
         (calls[k].status = "ok" /\ InCycle(calls[k].d)
            /\ ~calls[k].hit /\ (update \/ ~calls[k].existed))
         => \A e \in {calls[k].d} \cup (CycleOf(calls[k].d) \cap Followed(calls[k].d)) :
              Cardinality(Matches(Data[e].cls, Data[e].id)) = 1

\* the call for game 1 returned: one page for game 1, one for its cover
C5_Witness ==
    /\ Finished(1) /\ calls[1].d = 1 /\ ~calls[1].hit /\ ~calls[1].existed
    /\ InCycle(1) /\ 3 \in CycleOf(1) \cap Followed(1)
    /\ Cardinality(Matches("Game", 1)) = 1
    /\ Cardinality(Matches("Cover", 1)) = 1

\* C6 as claimed: a record whose relation fields are being serialized
\* already has an entry in the cache.
C6_CachedWhileSerializing ==
    \A i \in DOMAIN stack :
       stack[i].pc \in {"create", "update"}
       => CacheHas(cacheBase, stack[i].d, stack[i].bargs)

\* C6 amended: while a call is active (resolving, serializing or writing)
\* neither lru_cache holds an entry for its key; an entry is added only by
\* the step in which the call for that key returns.
C6_NotCachedState ==
    \A i \in DOMAIN stack :
       /\ ~CacheHas(cacheBase, stack[i].d, stack[i].bargs)
       /\ ~CacheHas(cacheSub, stack[i].d, stack[i].args)

C6_CachedAtReturnStep ==
    \A e \in cacheBase' \ cacheBase :
       /\ stack # << >>
       /\ Top.d = e.d /\ Top.bargs = e.args
       /\ Len(stack') = Len(stack) - 1
       /\ exc' = NoneV

C6_CachedOnlyOnReturn == []C6_NotCachedState /\ [][C6_CachedAtReturnStep]_vars

\* game 1 in mid-serialization: its cover is resolved, its page not yet
\* written, and the cache has no entry for it
C6_Witness ==
    /\ stack # << >>
    /\ stack[1].d = 1 /\ stack[1].pc = "create" /\ stack[1].idx = 2
    /\ ~CacheHas(cacheBase, 1, stack[1].bargs)
    /\ \E e \in cacheBase : e.d = 3

\* C7: a page written during the run holds one relation entry per referenced
\* record, each the id of a page of that record's type and key; and a step
\* that changes the store is taken by a call whose relation entries are all
\* resolved to pages in the store before the step.
C7_RelationsState ==
    \A i \in DOMAIN pages : pages[i].src # 0 =>
       /\ Len(pages[i].rels) = Len(Children(pages[i].src))
       /\ \A k \in DOMAIN pages[i].rels :
            /\ pages[i].rels[k] \in DOMAIN pages
            /\ pages[pages[i].rels[k]].cls = Data[Children(pages[i].src)[k]].cls
            /\ pages[pages[i].rels[k]].key = Data[Children(pages[i].src)[k]].id

C7_WriteStep ==
    pages' # pages =>
       /\ stack # << >>
       /\ Len(Top.rels) = Len(Children(Top.d))
       /\ \A k \in DOMAIN Top.rels :
            /\ Top.rels[k] \in DOMAIN pages
            /\ pages[Top.rels[k]].cls = Data[Children(Top.d)[k]].cls
            /\ pages[Top.rels[k]].key = Data[Children(Top.d)[k]].id

C7_RelationsResolvedFirst == []C7_RelationsState /\ [][C7_WriteStep]_vars

\* the localization's page written with its two relations
C7_Witness ==
    \E i \in DOMAIN pages :
       /\ pages[i].src = 2 /\ Len(pages[i].rels) = 2
       /\ pages[pages[i].rels[1]].cls = "Cover"
       /\ pages[pages[i].rels[2]].cls = "Region"

\* C8: a call leaves with a transient error only from its 10th attempt, no
\* call makes more than 10 attempts, and the error that leaves is the one
\* the last attempt raised: the caller receives it unchanged.
C8_AttemptsState == \A i \in DOMAIN stack : stack[i].attempt <= MaxAttempts

C8_ExhaustStep ==
    (exc \in Transient /\ Len(stack') < Len(stack))
    => /\ Top.attempt = MaxAttempts
       /\ IF stack' = << >>
          THEN calls'[Len(calls')].status = "err" /\ calls'[Len(calls')].err = exc
          ELSE exc' = exc

C8_TenAttempts == []C8_AttemptsState /\ [][C8_ExhaustStep]_vars

\* a top-level call ended with the transient error of its last attempt
C8_Witness ==
    /\ calls # << >>
    /\ calls[1].status = "err" /\ calls[1].err \in Transient
    /\ calls[1].d \in env.faulty

\* C9: an error of another class than HTTPResponseError and
\* RequestTimeoutError is never retried: the only step taken while it is in
\* flight removes the innermost call, issues no remote operation, and hands
\* the same error to the caller.
C9_NoRetryStep ==
    (exc # NoneV /\ exc \notin Transient)
    => /\ Len(stack') = Len(stack) - 1
       /\ lastOp'.op = "none"
       /\ pages' = pages
       /\ IF stack' = << >>
          THEN calls'[Len(calls')].status = "err" /\ calls'[Len(calls')].err = exc
          ELSE exc' = exc

C9_NonTransientNotRetried == [][C9_NoRetryStep]_vars

\* a nested call raised a non-transient error that ended the top-level call
C9_Witness ==
    /\ calls # << >>
    /\ calls[1].status = "err" /\ calls[1].err = "OtherError"
    /\ calls[1].d \notin env.faulty /\ env.faulty # {}

KeyCached(d, args) ==
    \/ HasOverride(Data[d].cls) /\ \E e \in cacheSub : e.d = d /\ e.args = args
    \/ \E e \in cacheBase : e.d = d /\ e.args = BaseArgs(d, args)

KeyHandle(d, args) ==
    IF HasOverride(Data[d].cls) /\ \E e \in cacheSub : e.d = d /\ e.args = args
    THEN (CHOOSE e \in cacheSub : e.d = d /\ e.args = args).h
    ELSE (CHOOSE e \in cacheBase : e.d = d /\ e.args = BaseArgs(d, args)).h

\* C11: a call whose key is in the cache, made at top level or for a relation
\* entry while a parent is serialized, yields the cached handle in one step
\* that issues no remote operation, changes no page and starts no call (so no
\* property is serialized and nothing recurses).
C11_TopLevelHit ==
    Len(calls') > Len(calls) =>
       LET c == calls'[Len(calls')]
       IN KeyCached(c.d, c.args) =>
            /\ c.hit /\ c.status = "ok" /\ c.h = KeyHandle(c.d, c.args)
            /\ lastOp'.op = "none" /\ pages' = pages /\ stack' = << >>

C11_NestedHit ==
    (/\ stack # << >> /\ exc = NoneV
     /\ Top.pc \in {"create", "update"}
     /\ Top.idx <= Len(Children(Top.d))
     /\ KeyCached(Children(Top.d)[Top.idx], Omitted))
    => /\ Len(stack') = Len(stack)
       /\ stack'[Len(stack)].rels =
            Append(Top.rels, KeyHandle(Children(Top.d)[Top.idx], Omitted))
       /\ lastOp'.op = "none" /\ pages' = pages

C11_CacheHitNoEffect == [][C11_TopLevelHit /\ C11_NestedHit]_vars

\* the localization is being serialized after the game was: its cover entry
\* came from the cache, with no call and no remote operation
C11_Witness ==
    /\ Len(calls) = 2 /\ calls[1].d = 1 /\ calls[1].status = "ok" /\ ~calls[1].hit
    /\ calls[2].d = 2 /\ calls[2].status = "run"
    /\ Len(stack) = 1 /\ stack[1].pc = "create" /\ stack[1].idx = 2
    /\ stack[1].rels = <<KeyHandle(3, Omitted)>>
    /\ lastOp.op = "none"

\* C12 as claimed: a remote operation issued while a call is resolving its
\* record is that call's own single query, which ends the resolution: no
\* write and no other call's query happens inside a resolution.
C12_ResolutionOneQueryNoWrite ==
    lastOp.op # "none" =>
       \A i \in DOMAIN stack :
          stack[i].pc = "retrieve" =>
             /\ i = Len(stack) /\ exc # NoneV
             /\ lastOp.op = "query" /\ lastOp.d = stack[i].d

\* C12 amended: resolution of a catalog or statistics record is one query
\* and no write, with no call nested in it.  Resolution of the composite
\* first obtains the page of its game from retrieve_or_create_from_data (the
\* only call nested in a resolution; it may query and write), and then
\* issues one query of its own, for that page, and no write.
C12_ResolutionState ==
    \A i \in DOMAIN stack :
       (i < Len(stack) /\ stack[i].pc = "retrieve")
       => /\ Data[stack[i].d].cls = "CustomGamePage"
          /\ stack[i].igdb = 0
          /\ stack[i + 1].d = Head(Data[stack[i].d].refs["igdb"])

C12_ResolutionStep ==
    (stack # << >> /\ exc = NoneV /\ Top.pc = "retrieve")
    => /\ pages' = pages
       /\ lastOp'.op \in {"none", "query"}
       /\ lastOp'.op = "query" =>
            /\ lastOp'.d = Top.d
            /\ \/ exc' # NoneV
               \/ Len(stack') < Len(stack)
               \/ stack'[Len(stack)].pc # "retrieve"
            /\ Data[Top.d].cls = "CustomGamePage" =>
                 /\ Top.igdb \in DOMAIN pages
                 /\ pages[Top.igdb].cls = "Game"
       /\ lastOp'.op = "none" =>
            \/ exc' = "ValueError"
            \/ Data[Top.d].cls = "CustomGamePage" /\ Top.igdb = 0

C12_ResolutionQueries == []C12_ResolutionState /\ [][C12_ResolutionStep]_vars

\* a composite has resolved its game, whose page was created inside the
\* resolution, and is about to issue its own query
C12_Witness ==
    /\ Len(stack) = 1 /\ stack[1].pc = "retrieve"
    /\ Data[stack[1].d].cls = "CustomGamePage"
    /\ stack[1].igdb \in DOMAIN pages
    /\ ~pages[stack[1].igdb].pre /\ pages[stack[1].igdb].cls = "Game"
    /\ lastOp.op = "create"

\* C13: a call proceeds to creation only through the miss of its one query,
\* starting with no relation entry; the create is issued once every
\* referenced record has been resolved or created, writes a page holding
\* exactly those entries, and when it succeeds the cache maps the call's key
\* to the new page; so a finished call for a key that was absent returns a
\* page of that key created in the run, and the cache maps its key to it.
C13_MissStep ==
    \A i \in DOMAIN stack' :
       (stack'[i].pc = "create" /\ (i \notin DOMAIN stack \/ stack[i].pc # "create"))
       => /\ i = Len(stack) /\ stack[i].pc = "retrieve"
          /\ lastOp' = Op("query", stack[i].d, 0, FALSE)
          /\ stack'[i].rels = << >> /\ stack'[i].idx = 1

C13_CreateStep ==
    lastOp'.op = "create" =>
       /\ Top.pc = "create"
       /\ Len(Top.rels) = Len(Children(Top.d))
       /\ \A k \in DOMAIN Top.rels : Top.rels[k] \in DOMAIN pages
       /\ lastOp'.effect =>
            /\ Len(pages') = Len(pages) + 1
            /\ pages'[Len(pages')].rels = Top.rels
            /\ pages'[Len(pages')].src = Top.d
       /\ exc' = NoneV =>
            /\ lastOp'.effect
            /\ \E e \in cacheBase' :
                 e.d = Top.d /\ e.args = Top.bargs /\ e.h = Len(pages')

C13_FinishedState ==
    \A k \in DOMAIN calls :
       (calls[k].status = "ok" /\ ~calls[k].hit /\ ~calls[k].existed)
       => /\ ~pages[calls[k].h].pre
          /\ pages[calls[k].h].cls = Data[calls[k].d].cls
          /\ pages[calls[k].h].key = Data[calls[k].d].id
          /\ \E e \in cacheBase :
               e.d = calls[k].d /\ e.args = BaseArgs(calls[k].d, calls[k].args)
                 /\ e.h = calls[k].h

C13_MissThenCreate ==
    []C13_FinishedState /\ [][C13_MissStep /\ C13_CreateStep]_vars

\* the localization, absent from the store, was created after its cover and
\* its region, and the cache maps it to the new page
C13_Witness ==
    /\ Finished(1) /\ calls[1].d = 2 /\ ~calls[1].hit /\ ~calls[1].existed
    /\ calls[1].h = Len(pages)
    /\ Len(pages[calls[1].h].rels) = 2
    /\ \E e \in cacheBase : e.d = 2 /\ e.h = calls[1].h

\* C14 as claimed: the content of every rich_text property is the first
\* 2000 units of the attribute it is built from, so it is never longer than
\* 2000 units.
C14_TextTruncated ==
    prop.kind = "text" =>
       /\ Len(prop.out) <= MAX_TEXT_LENGTH
       /\ prop.out = Take(prop.src, MAX_TEXT_LENGTH)

\* C15 as claimed: every collection-valued relation property holds the
\* entries of the first 100 records of the collection and no more.
C15_RelationCapped ==
    prop.kind = "relation" =>
       /\ Len(prop.out) <= MAX_RELATION_PAGES
       /\ prop.out = Take(prop.src, MAX_RELATION_PAGES)

\* the composite record a page or call was made from has no game-length
\* (no ownership) match
NoHltb(d) == Data[d].refs["hltb"] = << >>
NoSteamSpy(d) == Data[d].refs["steamspy"] = << >>

ClassOf(d) == Data[d].cls

\* C16: a lookup without a match gives None to the composite record (no
\* candidates for the game-length search; no store id, or an unsuccessful
\* response, for the ownership request) and the call is still made; while a
\* composite without a match is materialized no call and no remote operation
\* is made for that statistics type; and the page written for it has no
\* entry of that type among its relations.
C16_NoMatchEmptyRelation ==
    /\ (calls # << >> /\ main.pc = "loop") =>
         LET d == calls[Len(calls)].d
         IN /\ ClassOf(d) = "CustomGamePage"
            /\ main.last.results = << >> => NoHltb(d)
            /\ (~main.last.steamId \/ ~main.last.responseOk) => NoSteamSpy(d)
    /\ stack # << >> =>
         /\ NoHltb(stack[1].d) =>
              /\ \A i \in DOMAIN stack : ClassOf(stack[i].d) # "HLTBNotionPage"
              /\ lastOp.op # "none" => ClassOf(lastOp.d) # "HLTBNotionPage"
         /\ NoSteamSpy(stack[1].d) =>
              /\ \A i \in DOMAIN stack : ClassOf(stack[i].d) # "SteamSpyNotionPage"
              /\ lastOp.op # "none" => ClassOf(lastOp.d) # "SteamSpyNotionPage"
    /\ \A i \in DOMAIN pages :
         (pages[i].cls = "CustomGamePage" /\ pages[i].src # 0) =>
            /\ NoHltb(pages[i].src) =>
                 \A k \in DOMAIN pages[i].rels :
                    pages[pages[i].rels[k]].cls # "HLTBNotionPage"
            /\ NoSteamSpy(pages[i].src) =>
                 \A k \in DOMAIN pages[i].rels :
                    pages[pages[i].rels[k]].cls # "SteamSpyNotionPage"
            /\ Len(pages[i].rels) =
                 1 + Len(Data[pages[i].src].refs["hltb"])
                   + Len(Data[pages[i].src].refs["steamspy"])

\* neither lookup had a match: the composite page holds its game's entry
\* only, and the store has no page of either statistics type
C16_Witness ==
    /\ main.pc = "loop" /\ Len(calls) = 1 /\ Finished(1)
    /\ main.last.results = << >> /\ main.last.steamId /\ ~main.last.responseOk
    /\ \E i \in DOMAIN pages :
         /\ pages[i].cls = "CustomGamePage" /\ Len(pages[i].rels) = 1
         /\ pages[pages[i].rels[1]].cls = "Game"
    /\ \A i \in DOMAIN pages :
         pages[i].cls \notin {"HLTBNotionPage", "SteamSpyNotionPage"}

C18_SchemasOnceBeforeUpserts ==
    /\ \A a, b \in main.created : a.cls = b.cls => a = b
    /\ \A c \in main.created : c.cls \notin main.existing
    /\ (calls # << >> \/ stack # << >> \/ lastOp # NoOp
          \/ \E i \in DOMAIN pages : ~pages[i].pre)
       => /\ main.connected = Registered
          /\ \A cls \in Registered \ main.existing :
               \E c \in main.created : c.cls = cls

\* a workspace with every database: none was created, all are connected,
\* and the first game is being processed
C18_Witness ==
    /\ main.existing = Registered /\ main.created = {}
    /\ main.connected = Registered
    /\ Len(calls) = 1 /\ stack # << >>

\* C19: when one of the six values is not set, or one of the five the
\* checks test is empty, the program contacts no service, makes no call and
\* changes nothing in the store; it ends at startup with KeyError (values
\* read with os.environ) or ValueError (the checks).
C19_MissingConfigFatal ==
    (\/ \E n \in ConfigNames : main.cfg[n] = "unset"
     \/ \E n \in RequiredValues : main.cfg[n] = "empty")
    => /\ main.pc \in {"import", "checks", "failed"}
       /\ main.pc = "failed" => main.err \in {"KeyError", "ValueError"}
       /\ main.remote = {} /\ main.created = {} /\ main.connected = {}
       /\ calls = << >> /\ stack = << >> /\ lastOp = NoOp
       /\ \A i \in DOMAIN pages : pages[i].pre

\* only the source workspace id is missing: the run ended in the checks
C19_Witness ==
    /\ main.cfg = [n \in ConfigNames |->
                     IF n = "SOURCE_DB_ID" THEN "unset" ELSE "set"]
    /\ main.pc = "failed" /\ main.err = "ValueError"
    /\ main.remote = {}

\* C20: a call that ended with an error is the last call of the run (the
\* loop index has not gone past it and no call follows), and no step removes
\* a page or, the update flag being false in main.py, changes one: what was
\* written before the failure stays.
C20_FailedState ==
    /\ \A k \in DOMAIN calls : calls[k].status = "err" => k = Len(calls)
    /\ main.pc = "failed" => stack = << >>
    /\ Len(calls) = main.k - 1

C20_NoRollbackStep ==
    /\ Len(pages') >= Len(pages)
    /\ \A i \in DOMAIN pages : pages'[i] = pages[i]
    /\ (calls # << >> /\ calls[Len(calls)].status = "err")
       => (calls' = calls /\ pages' = pages /\ main'.k = main.k)

C20_FailureEndsRun == []C20_FailedState /\ [][C20_NoRollbackStep]_vars

\* the first of two games failed at a point where pages created for it are
\* in the store; the run is over and they are still there
C20_Witness ==
    /\ main.pc = "failed" /\ Len(main.games) = 2
    /\ Len(calls) = 1 /\ calls[1].status = "err"
    /\ \E i \in DOMAIN pages : ~pages[i].pre /\ pages[i].cls = "Game"

\* C21: the remote operations made for one record during one top-level call
\* fail at most 10 times before the error reaches the caller, however deep
\* the record's call is nested: the retry re-executes that operation alone.
\* (The wrapper re-executes the whole function body instead, so a parent
\* that receives the error of a child's 10th attempt runs the child's call
\* again, 10 attempts each time.)
C21_TenAttemptsTotal ==
    stack # << >> => \A d \in DataIds : stack[1].failed[d] <= MaxAttempts

\* C22: in a retry attempt of a parent (attempt 2 or later), a relation entry
\* whose record was created by a call that returned during an earlier attempt
\* (its page is in the store and its call's result is in the cache) is served
\* from the cache: the entry is the page created before, no call is started,
\* no remote operation is issued and the store is unchanged.  No nested call
\* issues a create-write for a key the store already holds a page for.
C22_RetryServedStep ==
    (/\ stack # << >> /\ exc = NoneV
     /\ Top.attempt > 1
     /\ Top.pc \in {"create", "update"}
     /\ Top.idx <= Len(Children(Top.d)))
    => LET c == Children(Top.d)[Top.idx]
       IN (/\ Created(Data[c].cls, Data[c].id) # {}
           /\ CacheHas(cacheBase, c, BaseArgs(c, Omitted)))
          => /\ Len(stack') = Len(stack)
             /\ stack'[Len(stack)].idx = Top.idx + 1
             /\ \E h \in Matches(Data[c].cls, Data[c].id) :
                   stack'[Len(stack)].rels = Append(Top.rels, h)
             /\ lastOp'.op = "none"
             /\ pages' = pages

C22_NoSecondCreateStep ==
    (lastOp'.op = "create" /\ Len(stack) >= 2)
    => Matches(Data[lastOp'.d].cls, Data[lastOp'.d].id) = {}

C22_RetryUsesCache == [][C22_RetryServedStep /\ C22_NoSecondCreateStep]_vars

\* game 1, first call of the run: its cover was created in the first attempt,
\* the game's own write failed, and the second attempt has just taken the
\* cover's page from the cache
C22_Witness ==
    /\ Len(calls) = 1 /\ Len(stack) = 1
    /\ stack[1].d = 1 /\ stack[1].attempt = 2 /\ stack[1].pc = "create"
    /\ stack[1].idx = 2 /\ Len(stack[1].rels) = 1
    /\ stack[1].failed[1] = 1
    /\ stack[1].rels[1] \in Created("Cover", 1)
    /\ lastOp.op = "none"
    /\ Cardinality(Created("Cover", 1)) = 1

\* C23: after a create-write that took effect in the store but raised a
\* transient error, the retry attempt begins with resolution again: its
\* query answers with a page of the record's key, the attempt goes on to
\* return or update that page, and no create-write is ever issued for a
\* key the store holds a page for.
C23_LostAckState ==
    (/\ stack # << >>
     /\ lastOp.op = "create" /\ lastOp.effect /\ exc \in Transient)
    => /\ Top.d = lastOp.d
       /\ lastOp.page \in Matches(Data[Top.d].cls, Data[Top.d].id)

C23_RetryResolvesStep ==
    (/\ stack # << >> /\ exc = NoneV
     /\ Top.attempt > 1 /\ Top.pc = "retrieve"
     /\ Matches(Data[Top.d].cls, Data[Top.d].id) # {}
     /\ lastOp'.op = "query" /\ exc' = NoneV)
    => /\ lastOp'.page \in Matches(Data[Top.d].cls, Data[Top.d].id)
       /\ \/ Len(stack') = Len(stack) - 1
          \/ /\ Len(stack') = Len(stack)
             /\ stack'[Len(stack)].pc = "update"
             /\ stack'[Len(stack)].page = lastOp'.page

C23_CreateOnlyAbsentState ==
    exc = NoneV
    => \A i \in DOMAIN stack :
          stack[i].pc = "create"
          => Matches(Data[stack[i].d].cls, Data[stack[i].d].id) = {}

C23_LostAckNoSecondCreate ==
    []C23_LostAckState /\ []C23_CreateOnlyAbsentState
    /\ [][C23_RetryResolvesStep]_vars

\* the first call of the run ended in its second attempt, whose query found
\* the page the first attempt's timed-out create-write had left in the store
C23_Witness ==
    /\ Len(calls) = 1 /\ calls[1].status = "ok" /\ ~calls[1].hit
    /\ lastOp.op = "query" /\ lastOp.page = calls[1].h /\ lastOp.d = calls[1].d
    /\ ~pages[calls[1].h].pre
    /\ pages[calls[1].h].src = calls[1].d
    /\ Cardinality(Matches(Data[calls[1].d].cls, Data[calls[1].d].id)) = 1
    /\ faultsLeft = MaxFaults - 1

\* C24: the caches gain an entry only in a step in which a call returns a
\* page (no exception in flight afterwards); when a top-level call has
\* raised, neither cache holds an entry for its key; and the next top-level
\* call, when made with the arguments of the call that raised, is not
\* answered by the cache: it starts with resolution.
C24_GainOnSuccessStep ==
    /\ \A e \in (cacheBase' \ cacheBase) \cup (cacheSub' \ cacheSub) : exc' = NoneV
    /\ cacheBase' # cacheBase
       => /\ stack # << >> /\ exc = NoneV
          /\ Len(stack') = Len(stack) - 1
          /\ cacheBase' \ cacheBase \subseteq
                {Entry(Top.d, Top.bargs, h) : h \in DOMAIN pages'}

C24_RaisedStep ==
    (/\ stack # << >> /\ stack' = << >>
     /\ calls'[Len(calls')].status = "err")
    => /\ ~CacheHas(cacheBase', stack[1].d, stack[1].bargs)
       /\ ~CacheHas(cacheSub', stack[1].d, stack[1].args)
       /\ calls'[Len(calls')].err # NoneV

C24_LaterCallStep ==
    (/\ Len(calls') > Len(calls) /\ calls # << >>
     /\ calls[Len(calls)].status = "err"
     /\ calls'[Len(calls')].d = calls[Len(calls)].d
     /\ calls'[Len(calls')].args = calls[Len(calls)].args)
    => /\ ~calls'[Len(calls')].hit
       /\ Len(stack') = 1 /\ stack'[1].pc = "retrieve" /\ stack'[1].attempt = 1

C24_CacheOnlyOnSuccess ==
    [][C24_GainOnSuccessStep /\ C24_RaisedStep /\ C24_LaterCallStep]_vars

\* a call raised a non-transient error, and the next call, made with the
\* same arguments, is in resolution
C24_Witness ==
    /\ Len(calls) = 2
    /\ calls[1].status = "err" /\ calls[1].err = "OtherError"
    /\ calls[2].d = calls[1].d /\ calls[2].args = calls[1].args
    /\ calls[2].status = "run"
    /\ Len(stack) = 1 /\ stack[1].pc = "retrieve"
    /\ lastOp.op = "none"

\* C25: an entry of either cache is never removed and never replaced (each
\* key has one entry, with the handle it was stored with), and the entries
\* of records of one entity type and natural key, whatever their hints or
\* content, all hold the same page.
C25_OneHandleState ==
    /\ \A c \in {cacheSub, cacheBase} :
          \A e1, e2 \in c : (e1.d = e2.d /\ e1.args = e2.args) => e1.h = e2.h
    /\ \A e1, e2 \in cacheSub \cup cacheBase :
          SameKey(e1.d, e2.d) => e1.h = e2.h
    /\ \A e \in cacheSub \cup cacheBase :
          e.h \in Matches(Data[e.d].cls, Data[e.d].id)

C25_NeverEvictedStep == cacheSub \subseteq cacheSub' /\ cacheBase \subseteq cacheBase'

C25_CacheStable == []C25_OneHandleState /\ [][C25_NeverEvictedStep]_vars

\* game 1 and the stub 5, two records of the key (Game, 1) with different
\* content and hints, both have an entry, for the one page created
C25_Witness ==
    /\ \E e1, e2 \in cacheBase :
          /\ e1.d = 1 /\ e2.d = 5 /\ e1.args # e2.args
          /\ e1.h = e2.h /\ ~pages[e1.h].pre
    /\ Cardinality(cacheBase) >= 3

\* the icon and cover the function body works with in a call f(d, args): the
\* values passed, or the type's defaults where none is passed
EffectiveHints(d, args) ==
    IF HasOverride(Data[d].cls) THEN Resolve(d, args)
    ELSE <<IconOf(args), CoverOf(args)>>

PassedHints(args) == <<IconOf(args), CoverOf(args)>>

\* the top-level call being made in this step, for a record an earlier
\* top-level call has returned a page for
SecondCall(i) ==
    /\ Len(calls') = Len(calls) + 1
    /\ i \in DOMAIN calls
    /\ calls[i].status = "ok"
    /\ calls[i].d = calls'[Len(calls')].d

\* C26 as claimed: a call for a record made with icon/cover hints other than
\* those of every earlier call for it is not a cache hit: it goes through
\* resolution.
C26_DifferentHintsResolve ==
    [][\A i \in DOMAIN calls :
         (/\ SecondCall(i)
          /\ \A j \in DOMAIN calls :
                calls[j].d = calls'[Len(calls')].d
                => PassedHints(calls[j].args) # PassedHints(calls'[Len(calls')].args))
         => ~calls'[Len(calls')].hit]_vars

\* C26 amended: the hints participate in the key as the function body sees
\* them, defaults applied.  A call for a record whose effective hints differ
\* from those of every earlier call for it (top-level, or nested with the
\* hints omitted) is not a cache hit: it starts with resolution, its query
\* finds the record's page, and it returns that page or updates it, never
\* creating one.  A call whose hints differ from those passed to an earlier
\* successful call, but are the same once the defaults are applied, is
\* answered by the cache.
C26_NewHintsStep ==
    \A i \in DOMAIN calls :
       LET c == calls'[Len(calls')]
       IN (/\ SecondCall(i)
           /\ \A j \in DOMAIN calls :
                 /\ calls[j].d = c.d
                    => EffectiveHints(c.d, calls[j].args) # EffectiveHints(c.d, c.args)
                 /\ c.d \in Reach(calls[j].d)
                    => EffectiveHints(c.d, Omitted) # EffectiveHints(c.d, c.args))
          => /\ ~c.hit
             /\ Len(stack') = 1 /\ stack'[1].pc = "retrieve"

C26_SameHintsStep ==
    \A i \in DOMAIN calls :
       LET c == calls'[Len(calls')]
       IN (/\ SecondCall(i)
           /\ PassedHints(calls[i].args) # PassedHints(c.args)
           /\ EffectiveHints(c.d, calls[i].args) = EffectiveHints(c.d, c.args))
          => c.hit /\ c.h = calls[i].h /\ lastOp'.op = "none"

C26_ResolvedState ==
    \A i \in DOMAIN calls :
       (/\ i < Len(calls) /\ calls[i].status = "ok"
        /\ calls[i].d = calls[Len(calls)].d)
       => /\ calls[Len(calls)].status = "ok" => calls[Len(calls)].h = calls[i].h
          /\ stack # << >>
             => /\ stack[1].pc # "create"
                /\ lastOp.op = "query" /\ lastOp.d = stack[1].d /\ exc = NoneV
                   => lastOp.page = calls[i].h

C26_HintsInKey ==
    []C26_ResolvedState /\ [][C26_NewHintsStep /\ C26_SameHintsStep]_vars

\* cover 3 was created by a call with no hints; a second call with an icon
\* hint of its own was not a cache hit and ended with the query that found
\* the page: one page for the key, two entries in the base cache
C26_Witness ==
    /\ Len(calls) = 2
    /\ calls[1].d = 3 /\ calls[1].args = <<NoneV, NoneV>> /\ calls[1].status = "ok"
    /\ calls[2].d = 3 /\ calls[2].args = <<"u", NoneV>> /\ calls[2].status = "ok"
    /\ ~calls[1].hit /\ ~calls[2].hit
    /\ calls[2].h = calls[1].h
    /\ lastOp.op = "query" /\ lastOp.page = calls[1].h
    /\ Cardinality(Matches("Cover", 1)) = 1
    /\ Cardinality({e \in cacheBase : e.d = 3}) = 2

\* the hints a frame's write carries
HintsOf(f) == <<IconOf(f.bargs), CoverOf(f.bargs)>>

C27_OneWriteStep ==
    (/\ lastOp'.op \in {"create", "update"}
     /\ stack # << >> /\ Len(stack') = Len(stack) - 1 /\ exc' = NoneV)
    => /\ lastOp'.d = Top.d /\ lastOp'.effect
       /\ lastOp'.page \in DOMAIN pages'
       /\ pages'[lastOp'.page] = Written(Top, lastOp'.op = "update" /\ pages[Top.page].pre)
       /\ \A h \in DOMAIN pages : h # lastOp'.page => pages'[h] = pages[h]
       /\ Len(pages') = Len(pages) + (IF lastOp'.op = "create" THEN 1 ELSE 0)
       /\ lastOp'.op = "update" => update
       /\ ~CacheHas(cacheBase, Top.d, Top.bargs)
       /\ CacheHas(cacheBase', Top.d, Top.bargs)
       /\ CacheGet(cacheBase', Top.d, Top.bargs) = lastOp'.page

C27_KeptStep == cacheBase \subseteq cacheBase'

C27_RetryWritesAgainStep ==
    (/\ stack # << >> /\ exc \in Transient
     /\ lastOp.op = "update" /\ Top.attempt < MaxAttempts
     /\ stack' # stack)
    => /\ Len(stack') = Len(stack)
       /\ stack'[Len(stack)].pc = "retrieve"
       /\ stack'[Len(stack)].attempt = Top.attempt + 1

C28_UpdatingState ==
    \A i \in DOMAIN stack :
       stack[i].pc = "update"
       => /\ update
          /\ stack[i].page \in Matches(Data[stack[i].d].cls, Data[stack[i].d].id)

C28_UpdateWriteStep ==
    (/\ stack # << >> /\ exc = NoneV
     /\ Top.pc = "update"
     /\ lastOp'.op = "update")
    => /\ lastOp'.d = Top.d /\ lastOp'.page = Top.page
       /\ Len(Top.rels) = Len(Children(Top.d))
       /\ \A k \in DOMAIN Top.rels :
            LET c == Children(Top.d)[k]
            IN /\ CacheHas(cacheBase, c, BaseArgs(c, Omitted))
               /\ Top.rels[k] = CacheGet(cacheBase, c, BaseArgs(c, Omitted))
               /\ Top.rels[k] \in Matches(Data[c].cls, Data[c].id)
       /\ lastOp'.effect
          => /\ pages'[Top.page].rels = Top.rels
             /\ pages'[Top.page].src = Top.d
             /\ pages'[Top.page].cls = pages[Top.page].cls
             /\ pages'[Top.page].key = pages[Top.page].key

C28_UpdateAfterRelations == []C28_UpdatingState /\ [][C28_UpdateWriteStep]_vars

\* game 1 had a page and its cover none: the cover's page was created, then
\* the game's page updated with it as the relation entry
C28_Witness ==
    /\ update
    /\ Len(calls) = 1 /\ calls[1].d = 1 /\ calls[1].status = "ok" /\ calls[1].existed
    /\ lastOp.op = "update" /\ lastOp.page = calls[1].h
    /\ pages[calls[1].h].pre /\ pages[calls[1].h].src = 1
    /\ Len(pages[calls[1].h].rels) = 1
    /\ ~pages[pages[calls[1].h].rels[1]].pre
    /\ pages[pages[calls[1].h].rels[1]].cls = "Cover"

\* C29: with two runs interleaved, a run's create-write can find pages of
\* its record's key in the store, every one of them created after the run's
\* own query was answered with no page; so the store can hold two pages
\* created for one natural key, one by each run, and never a third.
C29_RaceStep ==
    (/\ stack # << >> /\ exc = NoneV
     /\ Top.pc = "create"
     /\ lastOp'.op = "create")
    => /\ \A h \in Matches(Data[Top.d].cls, Data[Top.d].id) :
            h > Top.seen /\ ~pages[h].pre
       /\ Top.seen <= Len(pages)
       /\ \A h \in 1..Top.seen :
            ~(pages[h].cls = Data[Top.d].cls /\ pages[h].key = Data[Top.d].id)

C29_TwoRunsState ==
    \A cls \in IgdbClasses, key \in Keys :
       /\ Cardinality(Created(cls, key)) <= 2
       /\ Created(cls, key) # {} => Matches(cls, key) = Created(cls, key)

C29_RaceDuplicates == []C29_TwoRunsState /\ [][C29_RaceStep]_vars

\* both runs queried for region 4 before either wrote, and both created a
\* page for it
C29_Witness ==
    /\ Cardinality(Created("Region", 1)) = 2
    /\ Len(calls) = 1 /\ calls[1].d = 4 /\ calls[1].status = "ok" /\ ~calls[1].existed
    /\ Len(other.calls) = 1 /\ other.calls[1].d = 4 /\ other.calls[1].status = "ok"
    /\ ~other.calls[1].existed
    /\ calls[1].h # other.calls[1].h
    /\ lastOp.op = "create"

\* the type the relation called name of cls leads to in the expansion, or
\* "?" when cls has no such relation
RefTarget(cls, name) ==
    LET refs == QueryRefs(cls)
        S == {i \in DOMAIN refs : refs[i][1] = name}
    IN IF S = {} THEN "?" ELSE refs[CHOOSE i \in S : TRUE][2]

\* the types an entry passes through, starting from cls
RECURSIVE PathTypes(_, _)
PathTypes(cls, path) ==
    IF Len(path) <= 1 THEN << >>
    ELSE <<RefTarget(cls, Head(path))>> \o PathTypes(RefTarget(cls, Head(path)), Tail(path))

\* a tuple get_query_fields of cls may return
QueryFieldsOk(cls, fields) ==
    /\ Len(fields) >= 1
    /\ fields[1] = <<"*">>
    /\ \A i \in DOMAIN fields :
          LET path == fields[i]
              types == PathTypes(cls, path)
          IN /\ path[Len(path)] = "*"
             /\ \A k \in 1..(Len(path) - 1) : path[k] # "*"
             /\ i > 1 => Len(path) >= 2
             /\ \A k \in DOMAIN types : types[k] \in QueryTypes /\ types[k] # cls
             /\ \A k, l \in DOMAIN types : types[k] = types[l] => k = l

\* C30: for every registered type that has it, get_query_fields returns:
\* no type is entered while a call of it is active, so the calls nest no
\* deeper than there are types, and a call that has begun ends.  The tuple
\* returned begins with "*"; every other entry is relation names joined by
\* dots and ending in "*", each name a relation of the type the previous
\* ones lead to, and the types an entry passes through are distinct and do
\* not include the type the call was made on.
C30_CallsState ==
    /\ \A i, j \in DOMAIN query.stack :
          query.stack[i].cls = query.stack[j].cls => i = j
    /\ \A i \in DOMAIN query.stack : query.stack[i].cls \notin DOMAIN query.memo
    /\ Len(query.stack) <= Cardinality(QueryTypes)

C30_FieldsState ==
    /\ \A c \in DOMAIN query.memo : QueryFieldsOk(c, query.memo[c])
    /\ (query.n > 0 /\ query.stack = << >>)
       => \E c \in DOMAIN query.memo : query.out = query.memo[c]

C30_QueryFieldsTerminate ==
    /\ []C30_CallsState
    /\ []C30_FieldsState
    /\ (query.stack # << >>) ~> (query.stack = << >> /\ query.out # << >>)

\* Game.get_query_fields() has returned; one of its entries goes from the
\* game through platform, version, manufacturer and company to the logo
C30_Witness ==
    /\ query.stack = << >>
    /\ "Game" \in DOMAIN query.memo
    /\ query.out = query.memo["Game"]
    /\ \E i \in DOMAIN query.out :
          query.out[i] = <<"platforms", "versions", "main_manufacturer", "company",
                           "logo", "*">>
    /\ Len(query.out) > 22

\* ---------------------------------------------------------------- C31
\* the concatenation of a sequence of sequences
RECURSIVE Chain(_)
Chain(ss) == IF ss = << >> THEN << >> ELSE Head(ss) \o Chain(Tail(ss))

\* s is an initial part of t
IsPrefix(s, t) == Len(s) <= Len(t) /\ s = SubSeq(t, 1, Len(s))

\* the batches of a sequence that carry key x
BatchesWith(bs, x) == {k \in DOMAIN bs : \E j \in DOMAIN bs[k] : bs[k][j] = x}

\* C31: every catalog request carries between 1 and 25 keys; the requests
\* issued so far to an endpoint, put end to end, are an initial part of the
\* key list of that endpoint, and the whole list once the program has moved
\* past the endpoint, so that every extracted key is carried by exactly one
\* request and in the order of extraction (a key extracted once is in
\* exactly one batch)
C31_BatchesState ==
    /\ \A i \in DOMAIN batch.sent : Len(batch.sent[i].keys) \in 1..BatchSize
    /\ IsPrefix(Chain(SentTo("games")), batch.slugs)
    /\ IsPrefix(Chain(SentTo("external_games")), batch.appids)
    /\ batch.pc = "games" => SentTo("external_games") = << >>
    /\ batch.pc \in {"external_games", "done"} =>
          /\ Chain(SentTo("games")) = batch.slugs
          /\ \A x \in 1..Len(batch.slugs) :
                Cardinality({j \in DOMAIN batch.slugs : batch.slugs[j] = x}) = 1
                => Cardinality(BatchesWith(SentTo("games"), x)) = 1
    /\ batch.pc = "done" =>
          /\ Chain(SentTo("external_games")) = batch.appids
          /\ \A x \in 1..Len(batch.appids) :
                Cardinality({j \in DOMAIN batch.appids : batch.appids[j] = x}) = 1
                => Cardinality(BatchesWith(SentTo("external_games"), x)) = 1

\* all requests issued for more than one batch of slugs, a last batch that
\* is not full, and no application ids at all
C31_Witness ==
    /\ batch.pc = "done"
    /\ Len(batch.slugs) > BatchSize
    /\ Len(batch.slugs) % BatchSize # 0
    /\ Len(SentTo("games")) > 1
    /\ batch.appids = << >>
    /\ SentTo("external_games") = << >>

\* ---------------------------------------------------------------- C32
\* the records whose single-valued cover field holds the unset default
\* record (natural key 0)
UnsetCover(d) ==
    /\ Data[d].cls \in {"Game", "GameLocalization"}
    /\ Len(Data[d].refs["cover"]) = 1
    /\ Data[Data[d].refs["cover"][1]].id = 0

\* the entries of relation list rels of record d that belong to its cover
\* field, the first relation field of both classes
CoverEntries(d, rels) ==
    IF Data[d].cls = "Game"
    THEN SubSeq(rels, 1, Len(rels) - Len(Data[d].refs["game_localizations"]))
    ELSE SubSeq(rels, 1, Len(rels) - Len(Data[d].refs["region"]))

\* C32: a page written for a record whose cover is unset holds exactly one
\* cover handle, that of a Cover page with natural key 0 which the store
\* held before the run or which was created from the unset record;
C32_UnsetRelationState ==
    \A i \in DOMAIN pages : pages[i].src # 0 /\ UnsetCover(pages[i].src) =>
       LET e == CoverEntries(pages[i].src, pages[i].rels)
       IN /\ Len(e) = 1
          /\ e[1] \in DOMAIN pages
          /\ pages[e[1]].cls = "Cover"
          /\ pages[e[1]].key = 0
          /\ pages[e[1]].pre \/ pages[e[1]].src = Data[pages[i].src].refs["cover"][1]

\* and serialization reaching the unset cover makes the nested call for it
\* like for any record: a new activation for the unset record, or the handle
\* of a key-0 Cover page from the cache
C32_UnsetResolvedStep ==
    (/\ stack # << >> /\ exc = NoneV
     /\ Top.pc \in {"create", "update"}
     /\ UnsetCover(Top.d) /\ Top.idx = 1
     /\ stack' # stack)
    => LET c == Data[Top.d].refs["cover"][1]
       IN \/ stack' = Append(stack, NewFrame(c, Omitted))
          \/ /\ Len(stack') = Len(stack)
             /\ stack'[Len(stack)].idx = 2
             /\ Len(stack'[Len(stack)].rels) = 1
             /\ stack'[Len(stack)].rels[1] \in Matches("Cover", 0)

C32_UnsetRelationResolved == []C32_UnsetRelationState /\ [][C32_UnsetResolvedStep]_vars

\* the stub game's page written with one cover handle, that of the page
\* created from the unset cover
C32_Witness ==
    \E i \in DOMAIN pages :
       /\ pages[i].src = 5
       /\ Len(pages[i].rels) = 1
       /\ pages[pages[i].rels[1]].src = 6
       /\ pages[pages[i].rels[1]].key = 0

\* ---------------------------------------------------------------- C33
\* C33 as stated: the window of the wait that follows failed attempt n, the
\* wait before attempt n+1, is min(960, 3.75 * 2^n)
C33_WindowDoublesFromFirst ==
    backoff.pc = "sleep" =>
       backoff.high = (IF 15 * 2^backoff.attempt < 3840
                       THEN 15 * 2^backoff.attempt ELSE 3840)

\* C33 (amended): every wait is at most 960 time units and is drawn from a
\* window whose upper end, for the wait that follows failed attempt n, is
\* min(960, 3.75 * 2^(n-1)) (3.75 after the first attempt, 960 after the
\* ninth);
C33_WaitState ==
    backoff.pc = "sleep" =>
       /\ backoff.sleep <= backoff.high
       /\ backoff.sleep <= 3840
       /\ backoff.high = (IF 15 * 2^(backoff.attempt - 1) < 3840
                          THEN 15 * 2^(backoff.attempt - 1) ELSE 3840)
       /\ backoff.attempt < 10

\* the window never shrinks from one wait to the next, and the 10th attempt
\* is followed by no wait
C33_WaitStep ==
    /\ backoff'.pc = "sleep" => backoff'.high >= backoff.high
    /\ backoff.pc = "attempt" /\ backoff.attempt >= 10 => backoff'.pc # "sleep"

C33_WaitBounded == []C33_WaitState /\ [][C33_WaitStep]_vars

\* the longest possible wait, 960 time units, pending after the ninth
\* failed attempt
C33_Witness ==
    /\ backoff.pc = "sleep"
    /\ backoff.attempt = 9
    /\ backoff.sleep = 3840

\* ---------------------------------------------------------------- C34
\* a count of whole seconds or whole milliseconds
Whole(p) == p.kind = "date" /\ p.src.nanos = 0

\* C34: a value below 10^12 is decoded as that many seconds after the
\* epoch and a value of 10^12 or more as that many milliseconds, the
\* thousands taken as the seconds (both fail alike past the last
\* representable second);
C34_DecodeState ==
    prop.kind = "date" =>
       LET s == prop.src.seconds
           n == prop.src.nanos
       IN /\ s.hi < 1000000 =>
               IF s.hi > 253402 \/ (s.hi = 253402 /\ s.lo > 300799)
               THEN prop.out.error = "OverflowError"
               ELSE /\ prop.out.error = "none"
                    /\ prop.out.seconds = s
                    /\ prop.out.microseconds = n \div 1000
          /\ s.hi >= 1000000 /\ prop.out.error = "none" =>
               /\ prop.out.seconds.hi * 1000 + prop.out.seconds.lo \div 1000 = s.hi
               /\ (prop.out.seconds.lo % 1000) * 1000 = s.lo - (s.lo % 1000)
               /\ prop.out.microseconds = n \div 1000000

\* and a count t of seconds with 1000 * t >= 10^12 > t decodes to the same
\* instant as the count 1000 * t of milliseconds, whichever is decoded
\* first
C34_SameInstantStep ==
    /\ (/\ Whole(prop) /\ Whole(prop')
        /\ prop.src.seconds.hi \in 1000..999999
        /\ prop'.src.seconds = Times1000(prop.src.seconds))
       => prop'.out = prop.out
    /\ (/\ Whole(prop) /\ Whole(prop')
        /\ prop'.src.seconds.hi \in 1000..999999
        /\ prop.src.seconds = Times1000(prop'.src.seconds))
       => prop'.out = prop.out

C34_MillisecondsAsSeconds == []C34_DecodeState /\ [][C34_SameInstantStep]_vars

\* 1700000000000 ms decoded to the instant 1700000000 s after the epoch
C34_Witness ==
    /\ Whole(prop)
    /\ prop.src.seconds = Big(1700000, 0)
    /\ prop.out.error = "none"
    /\ prop.out.seconds = Big(1700, 0)
    /\ prop.out.microseconds = 0

\* ---------------------------------------------------------------- C35
\* the two ways of passing no hints
NoHintForms == {Omitted, <<NoneV, NoneV>>}

\* the lru_cache a call of record d's class reaches first
FirstCache(d) == IF HasOverride(Data[d].cls) THEN cacheSub ELSE cacheBase

\* that cache knows record d under the form other than args only
OnlyOtherForm(d, args) ==
    /\ args \in NoHintForms
    /\ \E e \in FirstCache(d) : e.d = d
    /\ \A e \in FirstCache(d) : e.d = d => e.args \in NoHintForms \ {args}

\* C35: a top-level call made with one of the two forms, for a record the
\* first lru_cache knows under the other form only, is not answered by that
\* cache: the function it wraps runs (the base method's body for a class
\* without an overriding wrapper; the wrapper for the others, which gains a
\* second entry for the record);
C35_DifferentKeysStep ==
    (Len(calls') = Len(calls) + 1
       /\ OnlyOtherForm(calls'[Len(calls')].d, calls'[Len(calls')].args))
    => LET c == calls'[Len(calls')]
       IN IF HasOverride(Data[c.d].cls)
          THEN /\ \E e \in cacheSub' \ cacheSub : e.d = c.d /\ e.args = c.args
               /\ Cardinality({e \in cacheSub' : e.d = c.d}) = 2
          ELSE /\ ~c.hit
               /\ stack' = <<NewFrame(c.d, c.args)>>

\* once a call of one form has returned, a call of the other form for the
\* same record sends no create-write for that record;
C35_NoCreateStep ==
    (/\ stack # << >> /\ exc = NoneV
     /\ Top.pc = "create" /\ PropertiesDone(Top)
     /\ lastOp'.op = "create")
    => ~\E i \in DOMAIN calls :
          /\ calls[i].status = "ok"
          /\ calls[i].d = Top.d
          /\ stack[1].d = Top.d
          /\ calls[i].args \in NoHintForms
          /\ stack[1].args \in NoHintForms \ {calls[i].args}

\* two such calls that have returned hold the same page, and at most one
\* create-write for the record's key has taken effect
C35_OnePageState ==
    \A i, j \in DOMAIN calls :
       (/\ calls[i].status = "ok" /\ calls[j].status = "ok"
        /\ calls[i].d = calls[j].d
        /\ calls[i].args = Omitted /\ calls[j].args = <<NoneV, NoneV>>)
       => /\ calls[i].h = calls[j].h
          /\ Cardinality(Created(Data[calls[i].d].cls, Data[calls[i].d].id)) <= 1

C35_OmittedAndNoneOneCreate ==
    []C35_OnePageState /\ [][C35_DifferentKeysStep /\ C35_NoCreateStep]_vars

\* region 4 requested with the hints omitted, then with both passed as
\* None: the second call ran the method body, both hold the one page
\* created, and the cache has an entry for each form
C35_Witness ==
    /\ Len(calls) = 2
    /\ calls[1].d = 4 /\ calls[2].d = 4
    /\ calls[1].args = Omitted /\ calls[2].args = <<NoneV, NoneV>>
    /\ calls[1].status = "ok" /\ calls[2].status = "ok"
    /\ ~calls[1].hit /\ ~calls[2].hit
    /\ calls[1].h = calls[2].h
    /\ Cardinality(Created("Region", 1)) = 1
    /\ CacheHas(cacheBase, 4, Omitted) /\ CacheHas(cacheBase, 4, <<NoneV, NoneV>>)

=============================================================================
